---- MODULE Spec2Model ----
(***************************************************************************)
(* Slot-filling engine of the AI loan-eligibility system: the text chat    *)
(* (routes/chat_routes.py), the turn-based voice agent                     *)
(* (routes/voice_routes.py), the realtime voice stream                     *)
(* (routes/voice_realtime_v2.py), document verification                    *)
(* (routes/ocr_routes.py, routes/loan_routes.py) and the evaluation        *)
(* endpoints.                                                              *)
(*                                                                         *)
(* A message is a sequence of one-character strings, so that the regular   *)
(* expressions of the extractor are computed character by character.       *)
(* A Python dict is a function whose DOMAIN is the set of keys present.    *)
(***************************************************************************)
EXTENDS Integers, Sequences, FiniteSets, TLC

(***************************************************************************)
(* Characters and strings                                                  *)
(***************************************************************************)
digitChars == <<"0", "1", "2", "3", "4", "5", "6", "7", "8", "9">>

lowerLetters ==
  <<"a", "b", "c", "d", "e", "f", "g", "h", "i", "j", "k", "l", "m",
    "n", "o", "p", "q", "r", "s", "t", "u", "v", "w", "x", "y", "z">>

upperLetters ==
  <<"A", "B", "C", "D", "E", "F", "G", "H", "I", "J", "K", "L", "M",
    "N", "O", "P", "Q", "R", "S", "T", "U", "V", "W", "X", "Y", "Z">>

\* F applied to the value of v
With(v, F(_)) == CHOOSE r \in {F(x) : x \in {v}} : TRUE

IndexOf(seq, c) == CHOOSE i \in 1..Len(seq) : seq[i] = c

InSeq(seq, c) == \E i \in 1..Len(seq) : seq[i] = c

isdigitCh(c) == InSeq(digitChars, c)

islowerCh(c) == InSeq(lowerLetters, c)

isupperCh(c) == InSeq(upperLetters, c)

isalphaCh(c) == islowerCh(c) \/ isupperCh(c)

isalnumCh(c) == isalphaCh(c) \/ isdigitCh(c)

isspaceCh(c) == c = " "

DigitVal(c) == IndexOf(digitChars, c) - 1

lowerCh(c) == IF isupperCh(c) THEN lowerLetters[IndexOf(upperLetters, c)] ELSE c

upperCh(c) == IF islowerCh(c) THEN upperLetters[IndexOf(lowerLetters, c)] ELSE c

\* str.lower()
lower(s) == [i \in 1..Len(s) |-> lowerCh(s[i])]

\* str.capitalize()
capitalize(s) == [i \in 1..Len(s) |-> IF i = 1 THEN upperCh(s[i]) ELSE lowerCh(s[i])]

\* str.strip()
strip(s) ==
  LET keep == {i \in 1..Len(s) : ~isspaceCh(s[i])}
  IN  IF keep = {} THEN <<>>
      ELSE LET a == CHOOSE i \in keep : \A j \in keep : i <= j
               b == CHOOSE i \in keep : \A j \in keep : j <= i
           IN  SubSeq(s, a, b)

\* str.isdigit()
isdigit(s) == Len(s) > 0 /\ \A i \in 1..Len(s) : isdigitCh(s[i])

\* the literal w occurs in s at index i
StartsAt(s, i, w) ==
  /\ i >= 1
  /\ i + Len(w) - 1 <= Len(s)
  /\ \A k \in 1..Len(w) : s[i + k - 1] = w[k]

\* `w in s`
Contains(s, w) == \E i \in 1..(Len(s) + 1) : StartsAt(s, i, w)

\* last index of the maximal run of characters satisfying P that starts at i
\* (i - 1 when the run is empty)
RunEnd(s, i, P(_)) ==
  IF i > Len(s) THEN i - 1
  ELSE CHOOSE j \in (i - 1)..Len(s) :
         /\ \A k \in i..j : P(s[k])
         /\ j = Len(s) \/ ~P(s[j + 1])

\* least element of a non-empty set of integers
Least(S) == CHOOSE x \in S : \A y \in S : x <= y

\* values above 32 bits are not needed exactly: every comparison the code
\* makes on them is against a bound far below BigNum
BigNum == 1000000000

RECURSIVE intOf(_)
\* int(s) for a string of digits, capped at BigNum
intOf(s) ==
  IF Len(s) = 0 THEN 0
  ELSE LET hi == intOf(SubSeq(s, 1, Len(s) - 1))
       IN  IF hi >= BigNum \div 10 THEN BigNum ELSE hi * 10 + DigitVal(s[Len(s)])

RECURSIVE split(_)
\* str.split(): the whitespace-separated words of s
split(s) ==
  LET t == strip(s)
  IN  IF Len(t) = 0 THEN <<>>
      ELSE LET e == RunEnd(t, 1, LAMBDA c : ~isspaceCh(c))
           IN  <<SubSeq(t, 1, e)>> \o split(SubSeq(t, e + 1, Len(t)))

RECURSIVE join(_)
\* " ".join(words)
join(words) ==
  IF Len(words) = 0 THEN <<>>
  ELSE IF Len(words) = 1 THEN words[1]
  ELSE words[1] \o <<" ">> \o join(Tail(words))

(***************************************************************************)
(* _extract_data_from_message (chat_routes.py)                             *)
(***************************************************************************)
isEmailLocalCh(c) == isalnumCh(c) \/ c \in {"_", ".", "+", "-"}

isEmailDomainCh(c) == isalnumCh(c) \/ c = "-"

isEmailTailCh(c) == isalnumCh(c) \/ c \in {"-", "."}

\* last index of a match of  [a-zA-Z0-9_.+\-]+ "@" [a-zA-Z0-9\-]+\.[a-zA-Z0-9\-.]+
\* that starts at i, or 0
emailEndAt(s, i) ==
  LET e == RunEnd(s, i, isEmailLocalCh)
      d == RunEnd(s, e + 2, isEmailDomainCh)
      t == RunEnd(s, d + 2, isEmailTailCh)
  IN  IF /\ e >= i
         /\ StartsAt(s, e + 1, <<"@">>)
         /\ d >= e + 2
         /\ StartsAt(s, d + 1, <<".">>)
         /\ t >= d + 2
      THEN t ELSE 0

\* re.search of the e-mail pattern: the matched text, or <<>>
email_match(s) ==
  LET starts == {i \in 1..Len(s) : emailEndAt(s, i) # 0}
  IN  IF starts = {} THEN <<>>
      ELSE SubSeq(s, Least(starts), emailEndAt(s, Least(starts)))

\* the index after the literal w at i, or 0 (0 propagates a failed match)
Lit(s, i, w) == IF i # 0 /\ StartsAt(s, i, w) THEN i + Len(w) ELSE 0

\* the index after \s+ at i, or 0
Ws1(s, i) ==
  IF i # 0 /\ StartsAt(s, i, <<" ">>) THEN RunEnd(s, i, isspaceCh) + 1 ELSE 0

\* the index after \s* at i, or 0
Ws0(s, i) == IF i = 0 THEN 0 ELSE RunEnd(s, i, isspaceCh) + 1

isNameCh(c) == isalphaCh(c) \/ c \in {"-", "'"}

isBareNameCh(c) == isalphaCh(c) \/ c \in {"-", "'", "."}

\* last index of a word [A-Za-z]C+ at i (C the class P), or 0
wordEndAt(s, i, P(_)) ==
  IF i >= 1 /\ i + 1 <= Len(s) /\ isalphaCh(s[i]) /\ P(s[i + 1])
  THEN RunEnd(s, i + 1, P) ELSE 0

RECURSIVE moreWords(_, _, _)
\* last index after greedily matching (?:\s+[A-Za-z][A-Za-z\-']+){0,n}
\* behind a word that ends at e
moreWords(s, e, n) ==
  IF n = 0 THEN e
  ELSE LET q == Ws1(s, e + 1)
           w == wordEndAt(s, q, isNameCh)
       IN  IF q # 0 /\ w # 0 THEN moreWords(s, w, n - 1) ELSE e

\* index after the carrier phrase (my\s+name\s+is|i\s*am|i'm|this\s+is)
\* number k at i, or 0
carrierEnd(s, i, k) ==
  CASE k = 1 -> Lit(s, Ws1(s, Lit(s, Ws1(s, Lit(s, i, <<"m", "y">>)), <<"n", "a", "m", "e">>)), <<"i", "s">>)
    [] k = 2 -> Lit(s, Ws0(s, Lit(s, i, <<"i">>)), <<"a", "m">>)
    [] k = 3 -> Lit(s, i, <<"i", "'", "m">>)
    [] k = 4 -> Lit(s, Ws1(s, Lit(s, i, <<"t", "h", "i", "s">>)), <<"i", "s">>)

\* first index of the name behind carrier k at i, or 0
carriedNameAt(s, i, k) ==
  LET q == Ws1(s, carrierEnd(s, i, k))
  IN  IF q # 0 /\ wordEndAt(s, q, isNameCh) # 0 THEN q ELSE 0

\* re.search of the name phrase in message_lower: group(1), or <<>>
name_phrase(s) ==
  LET hits == {i \in 1..Len(s) : \E k \in 1..4 : carriedNameAt(s, i, k) # 0}
  IN  IF hits = {} THEN <<>>
      ELSE LET i == Least(hits)
               k == Least({j \in 1..4 : carriedNameAt(s, i, j) # 0})
               q == carriedNameAt(s, i, k)
           IN  SubSeq(s, q, moreWords(s, wordEndAt(s, q, isNameCh), 3))

mapSeq(F(_), seq) == [i \in 1..Len(seq) |-> F(seq[i])]

loan_keywords ==
  {<<"l", "o", "a", "n">>, <<"a", "p", "p", "l", "y">>, <<"a", "p", "p", "l", "i", "c", "a", "t", "i", "o", "n">>, <<"a", "m", "o", "u", "n", "t">>, <<"b", "o", "r", "r", "o", "w">>, <<"c", "r", "e", "d", "i", "t">>, <<"s", "c", "o", "r", "e">>,
   <<"i", "n", "c", "o", "m", "e">>, <<"s", "a", "l", "a", "r", "y">>, <<"s", "a", "l", "a", "r", "i", "e", "d">>, <<"s", "e", "l", "f", "-", "e", "m", "p", "l", "o", "y", "e", "d">>, <<"b", "u", "s", "i", "n", "e", "s", "s">>}

\* re.fullmatch(r"^[A-Za-z][A-Za-z\-'.]+(?:\s+[A-Za-z][A-Za-z\-'.]+){0,2}$")
\* on a stripped message: one to three words of that shape
bareNameShape(s) ==
  LET ws == split(s)
  IN  /\ Len(ws) \in 1..3
      /\ \A i \in 1..Len(ws) : wordEndAt(ws[i], 1, isBareNameCh) = Len(ws[i])

\* the bare-name heuristic of lines 1179-1186
looksLikeName(message_stripped) ==
  LET words == split(message_stripped)
  IN  /\ Len(words) \in 1..3
      /\ ~\E i \in 1..Len(words) : lower(words[i]) \in loan_keywords
      /\ \A i \in 1..Len(words) :
           isalphaCh(words[i][1]) =>
             /\ isupperCh(words[i][1])
             /\ \E j \in 2..Len(words[i]) : islowerCh(words[i][j])
      /\ bareNameShape(message_stripped)

\* n digits stand at p..p+n-1
digitsAt(s, p, n) == p >= 1 /\ p + n - 1 <= Len(s) /\ \A k \in p..(p + n - 1) : isdigitCh(s[k])

\* a search for n digits that never looks at the index it starts from
firstDigitsAfter(s, from, n) ==
  LET ps == {p \in (from + 1)..Len(s) : digitsAt(s, p, n)}
  IN  IF ps = {} THEN 0 ELSE Least(ps)

\* where the lazy .*? of "keyword.*?(\d{n,})" stops: the first index at or
\* after from where n digits stand, or 0
firstDigits(s, from, n) ==
  LET ps == {p \in from..Len(s) : digitsAt(s, p, n)}
  IN  IF ps = {} THEN 0 ELSE Least(ps)

\* re.search(r'kw1.*?(\d{lo,hi})|kw2.*?(\d{lo,hi})|...'): the digits of the
\* group that matched, or <<>>
keyword_number(s, kws, lo, hi) ==
  LET hit(i, k) == StartsAt(s, i, kws[k]) /\ firstDigits(s, i + Len(kws[k]), lo) # 0
      starts == {i \in 1..Len(s) : \E k \in 1..Len(kws) : hit(i, k)}
  IN  IF starts = {} THEN <<>>
      ELSE LET i == Least(starts)
               k == Least({j \in 1..Len(kws) : hit(i, j)})
               p == firstDigits(s, i + Len(kws[k]), lo)
               e == RunEnd(s, p, isdigitCh)
           IN  SubSeq(s, p, IF e > p + hi - 1 THEN p + hi - 1 ELSE e)

\* last index of \d+(?:\.\d+)? at i
unitNumberEnd(s, i) ==
  LET e == RunEnd(s, i, isdigitCh)
      f == RunEnd(s, e + 2, isdigitCh)
  IN  IF StartsAt(s, e + 1, <<".">>) /\ f >= e + 2 THEN f ELSE e

\* (\d+(?:\.\d+)?)\s*(lakh|lakhs|crore|crores) matches at i
unitAt(s, i) ==
  /\ digitsAt(s, i, 1)
  /\ LET q == Ws0(s, unitNumberEnd(s, i) + 1)
     IN  StartsAt(s, q, <<"l", "a", "k", "h">>) \/ StartsAt(s, q, <<"c", "r", "o", "r", "e">>)

RECURSIVE pow10(_)
pow10(n) == IF n = 0 THEN 1 ELSE 10 * pow10(n - 1)

\* round(): to the nearest integer, ties to the even one
roundDiv(a, b) ==
  LET q == a \div b
      r == a % b
  IN  IF 2 * r < b THEN q
      ELSE IF 2 * r > b THEN q + 1
      ELSE IF q % 2 = 0 THEN q ELSE q + 1

\* int(round(float(group(1)) * multiplier)) for the unit match at i
unitValue(s, i) ==
  LET e == RunEnd(s, i, isdigitCh)
      f == unitNumberEnd(s, i)
      q == Ws0(s, f + 1)
      multiplier == IF StartsAt(s, q, <<"l", "a", "k", "h">>) THEN 100000 ELSE 10000000
      whole == intOf(SubSeq(s, i, e))
      frac == IF f > e THEN intOf(SubSeq(s, e + 2, f)) ELSE 0
      places == IF f > e THEN f - e - 1 ELSE 0
  IN  IF whole >= BigNum \div multiplier THEN BigNum
      ELSE whole * multiplier + roundDiv(frac * multiplier, pow10(places))

\* re.search of the unit pattern in message_lower: the start index, or 0
unit_match(s) ==
  LET starts == {i \in 1..Len(s) : unitAt(s, i)}
  IN  IF starts = {} THEN 0 ELSE Least(starts)

\* re.search(r'(\d+)\s*(?:dependent|kid|child)'): the start index, or 0
dep_match(s) ==
  LET at(i) ==
        /\ digitsAt(s, i, 1)
        /\ LET q == Ws0(s, RunEnd(s, i, isdigitCh) + 1)
           IN  \/ StartsAt(s, q, <<"d", "e", "p", "e", "n", "d", "e", "n", "t">>)
               \/ StartsAt(s, q, <<"k", "i", "d">>)
               \/ StartsAt(s, q, <<"c", "h", "i", "l", "d">>)
      starts == {i \in 1..Len(s) : at(i)}
  IN  IF starts = {} THEN 0 ELSE Least(starts)

\* re.fullmatch(r"\d{5,8}", message_stripped)
plainNumber(s) == isdigit(s) /\ Len(s) \in 5..8

\* a dict with the one key k when present, the empty dict otherwise
entry(k, present, v) == IF present THEN k :> v ELSE <<>>

upperFirst(w) == [i \in 1..Len(w) |-> IF i = 1 THEN upperCh(w[i]) ELSE w[i]]

\* the searches of _extract_data_from_message, each made once
searches(message) ==
  [email |-> email_match(message),
   name_val |-> name_phrase(lower(message)),
   looks_like_name |-> looksLikeName(strip(message)),
   unit_income |-> unit_match(lower(message)),
   income_match |-> keyword_number(lower(message), <<<<"i", "n", "c", "o", "m", "e">>, <<"s", "a", "l", "a", "r", "y">>, <<"e", "a", "r", "n">>>>, 4, 8),
   loan_match |-> keyword_number(lower(message), <<<<"l", "o", "a", "n">>, <<"b", "o", "r", "r", "o", "w">>, <<"n", "e", "e", "d">>>>, 4, 8),
   credit_match |-> keyword_number(lower(message), <<<<"c", "r", "e", "d", "i", "t">>, <<"s", "c", "o", "r", "e">>>>, 3, 3),
   phone |-> firstDigits(message, 1, 10),
   dep |-> dep_match(lower(message)),
   employed |-> Contains(lower(message), <<"e", "m", "p", "l", "o", "y", "e", "d">>),
   message_lower |-> lower(message),
   message_stripped |-> strip(message)]

\* the amounts of a message, each -1 where the function finds none
amounts(m) ==
  [unit |-> IF m.unit_income # 0 THEN unitValue(m.message_lower, m.unit_income)
            ELSE -1,
   income_match |-> IF m.income_match # <<>> THEN intOf(m.income_match) ELSE -1,
   loan_match |-> IF m.loan_match # <<>> THEN intOf(m.loan_match) ELSE -1,
   credit_match |-> IF m.credit_match # <<>> THEN intOf(m.credit_match) ELSE -1,
   plain |-> IF plainNumber(m.message_stripped) THEN intOf(m.message_stripped)
             ELSE -1,
   count |-> IF isdigit(m.message_stripped) THEN intOf(m.message_stripped) ELSE -1,
   dep |-> IF m.dep # 0
           THEN intOf(SubSeq(m.message_lower, m.dep,
                             RunEnd(m.message_lower, m.dep, isdigitCh)))
           ELSE -1]

\* the dict the function builds from what it found
extractedFrom(message, m, n) ==
  LET annual_income ==
        IF n.unit # -1 THEN n.unit
        ELSE IF n.income_match # -1 THEN n.income_match
        ELSE n.plain
      loan_amount ==
        IF n.unit # -1 THEN n.unit
        ELSE IF n.loan_match # -1 THEN n.loan_match
        ELSE IF n.plain # annual_income THEN n.plain
        ELSE -1
      exact == lower(m.message_stripped)
  IN  entry("email", m.email # <<>>, m.email)
      @@ entry("full_name", m.name_val # <<>>,
               join(mapSeq(capitalize, split(m.name_val))))
      @@ entry("full_name", m.name_val = <<>> /\ m.looks_like_name,
               join(mapSeq(upperFirst, split(m.message_stripped))))
      @@ entry("employment_status", m.employed, <<"e", "m", "p", "l", "o", "y", "e", "d">>)
      @@ entry("employment_status", exact = <<"s", "a", "l", "a", "r", "i", "e", "d">>, <<"s", "a", "l", "a", "r", "i", "e", "d">>)
      @@ entry("employment_status", exact = <<"s", "e", "l", "f", "-", "e", "m", "p", "l", "o", "y", "e", "d">>, <<"s", "e", "l", "f", "-", "e", "m", "p", "l", "o", "y", "e", "d">>)
      @@ entry("employment_status", exact = <<"b", "u", "s", "i", "n", "e", "s", "s">>, <<"b", "u", "s", "i", "n", "e", "s", "s">>)
      @@ entry("annual_income", annual_income # -1, annual_income)
      @@ entry("loan_amount", loan_amount # -1, loan_amount)
      @@ entry("credit_score", n.credit_match \in 300..850, n.credit_match)
      @@ entry("phone", m.phone # 0, SubSeq(message, m.phone, m.phone + 9))
      @@ entry("num_dependents", n.dep # -1, n.dep)
      @@ entry("num_dependents", n.dep = -1 /\ n.count \in 0..20, n.count)

_extract_data_from_message(message) ==
  With(searches(message),
       LAMBDA m : With(amounts(m), LAMBDA n : extractedFrom(message, m, n)))

(***************************************************************************)
(* The database and the observable traffic                                 *)
(*                                                                         *)
(* A table is the sequence of its rows in insertion order; the primary key *)
(* of a row is its index, and "order_by(created_at.desc()).first()" is the *)
(* last row.  A row is a dict of its non-NULL columns.  None is modelled   *)
(* by the absence of the key; an id that is None is 0.  Every text value   *)
(* is a sequence of characters, every number an integer.                   *)
(***************************************************************************)
VARIABLES
  applications,   \* table loan_applications
  chat_sessions,  \* table chat_sessions
  voice_calls,    \* table voice_calls
  ml_calls,       \* calls made to ml_service.predict_eligibility
  emails,         \* calls made to email_service.send_loan_result_notification
  request,        \* the request being answered
  response,       \* the answer to it
  script,         \* the scripted chat client: how far it has got, and as whom
  stream,         \* the real-time voice session: its data, its tasks, what it sent
  otp,            \* EmailService._otp_store and the clock it reads
  manager,        \* the ConnectionManager of the manager notifications
  openrouter      \* a call of OpenRouterService.generate

vars ==
  <<applications, chat_sessions, voice_calls, ml_calls, emails, request,
    response, script, stream, otp, manager, openrouter>>

\* d.get(k) is not None
Has(d, k) == k \in DOMAIN d

\* d[k] = v
Put(d, k, v) == (k :> v) @@ d

\* d[k] = v if v is there to be written (v is a dict holding at most the key k)
PutFrom(d, k, src) == IF Has(src, k) THEN Put(d, k, src[k]) ELSE d

\* del d[k]
Del(d, k) == [x \in (DOMAIN d) \ {k} |-> d[x]]

\* d restricted to the keys in ks
Only(d, ks) == [x \in (DOMAIN d) \cap ks |-> d[x]]

\* the keys whose values are numbers; all other values are texts
NumericKeys ==
  {"id", "user_id", "annual_income", "loan_amount", "credit_score",
   "num_dependents", "loan_term_months", "monthly_income", "age",
   "loan_amount_requested", "loan_tenure_years", "dependents", "existing_emi",
   "eligibility_score"}

\* bool(d.get(k)): present, and neither 0 nor ""
Truthy(d, k) ==
  /\ Has(d, k)
  /\ IF k \in NumericKeys THEN d[k] # 0 ELSE d[k] # <<>>

\* the row with primary key id, or None
NoApplication == <<>>

getApplication(id) ==
  IF id \in 1..Len(applications) THEN applications[id] ELSE NoApplication

\* the last (at most) n elements of a sequence
lastN(seq, n) == IF Len(seq) <= n THEN seq ELSE SubSeq(seq, Len(seq) - n + 1, Len(seq))

\* the sequence reversed
reversed(seq) == [i \in 1..Len(seq) |-> seq[Len(seq) + 1 - i]]

(***************************************************************************)
(* Chat: what the assistant says                                           *)
(*                                                                         *)
(* A reply is kept by the name of the string literal of the source that    *)
(* produced it, together with what the engine and the claims read from     *)
(* its text: the slot fields it asks for, which of the phrases             *)
(* "annual income", "loan amount", "credit score" it contains (the only    *)
(* thing _infer_from_last_question looks at), whether it is a request to   *)
(* upload documents, and whether it is blank or opens with the provider's  *)
(* "sorry, i'm having trouble responding right now".                       *)
(***************************************************************************)
Reply(id, asks, mentions, upload) ==
  [id |-> id, asks |-> asks, mentions |-> mentions, upload |-> upload,
   blank |-> FALSE, sorry |-> FALSE]

\* the phrase by which a reply names a slot, for the three slots that
\* _infer_from_last_question knows
phraseOf(key) ==
  CASE key = "annual_income" -> {"annual income"}
    [] key = "loan_amount" -> {"loan amount"}
    [] key = "credit_score" -> {"credit score"}
    [] OTHER -> {}

\* the seven fields the free-text engine collects, in asking order
required_order ==
  <<"full_name", "email", "annual_income", "credit_score", "loan_amount",
    "employment_status", "num_dependents">>

\* display names of _get_missing_fields and of display_map
display_name(key) ==
  CASE key = "annual_income" -> "annual income"
    [] key = "credit_score" -> "credit score"
    [] key = "loan_amount" -> "loan amount"
    [] key = "loan_term_months" -> "loan term (months)"
    [] key = "num_dependents" -> "number of dependents"
    [] key = "employment_status" -> "employment status"
    [] key = "full_name" -> "full name"
    [] key = "email" -> "email address"
    [] OTHER -> key

greeting_reply == Reply("greeting", {"full_name"}, {}, FALSE)

loan_inquiry_reply ==
  Reply("loan_inquiry", {"annual_income"}, {"loan amount", "annual income"}, FALSE)

document_upload_reply == Reply("document_upload", {}, {}, TRUE)

verification_reply == Reply("verification", {}, {}, FALSE)

predict_reply == Reply("eligibility_check", {}, {}, FALSE)

saved_information_reply ==
  Reply("saved_information", {}, {"annual income", "credit score", "loan amount"}, FALSE)

upload_documents_reply == Reply("upload_documents", {}, {}, TRUE)

\* OllamaService.generate_response when the provider answers with a status
\* other than 200, cannot be reached, or fails otherwise
ollama_unable_reply ==
  Reply("ollama_unable", {"full_name", "email", "annual_income", "credit_score",
                          "loan_amount", "employment_status", "num_dependents"},
        {"annual income", "credit score", "loan amount"}, FALSE)

ollama_unreachable_reply ==
  Reply("ollama_unreachable", {"full_name", "email", "annual_income", "credit_score",
                               "loan_amount", "employment_status", "num_dependents"},
        {"annual income", "credit score", "loan amount"}, FALSE)

ollama_error_reply == Reply("ollama_error", {}, {}, FALSE)

(***************************************************************************)
(* _has_required_fields, _get_missing_fields                               *)
(***************************************************************************)
required_fields ==
  <<"annual_income", "credit_score", "loan_amount", "loan_term_months",
    "num_dependents", "employment_status">>

\* value is None or (a number and 0)
fieldMissing(application, field) ==
  \/ ~Has(application, field)
  \/ field \in NumericKeys /\ application[field] = 0

_has_required_fields(application) ==
  \A i \in 1..Len(required_fields) : ~fieldMissing(application, required_fields[i])

\* the display names of the missing fields, in the order of required_fields
_get_missing_fields(application) ==
  LET missing == SelectSeq(required_fields, LAMBDA f : fieldMissing(application, f))
  IN  [i \in 1..Len(missing) |-> display_name(missing[i])]

(***************************************************************************)
(* The sessions a conversation can see                                     *)
(***************************************************************************)
\* the filter shared by _get_last_assistant_prompt,
\* _get_last_assistant_question_key and _get_conversation_history: the
\* sessions of the application, else the user's sessions without
\* application, else nothing
visibleSessions(application, user_id) ==
  IF application # NoApplication
  THEN SelectSeq(chat_sessions, LAMBDA s : s.application_id = application["id"])
  ELSE IF user_id # 0
  THEN SelectSeq(chat_sessions, LAMBDA s : s.user_id = user_id /\ s.application_id = 0)
  ELSE <<>>

\* the user's sessions that belong to no application, oldest first
preApplicationSessions(user_id) ==
  SelectSeq(chat_sessions, LAMBDA s : s.user_id = user_id /\ s.application_id = 0)

NoPrompt == [empty |-> TRUE, mentions |-> {}]

_get_last_assistant_prompt(application, user_id) ==
  LET sess == visibleSessions(application, user_id)
  IN  IF Len(sess) = 0 THEN NoPrompt
      ELSE [empty |-> FALSE, mentions |-> sess[Len(sess)].assistant.mentions]

_get_last_assistant_question_key(application, user_id) ==
  LET sess == visibleSessions(application, user_id)
  IN  IF Len(sess) = 0 THEN ""
      ELSE IF Has(sess[Len(sess)].assistant_meta, "last_question")
      THEN sess[Len(sess)].assistant_meta["last_question"]
      ELSE ""

(***************************************************************************)
(* The disambiguator: lines 593-621 of _analyze_conversation and           *)
(* _infer_from_last_question                                               *)
(***************************************************************************)
\* re.sub(r"\D", "", msg)
digitsOf(msg) == SelectSeq(msg, isdigitCh)

\* the amount a bare reply gives for an income or a loan amount, -1 if none
amountOf(msg) ==
  With(unit_match(msg),
       LAMBDA unit :
         IF unit # 0 THEN unitValue(msg, unit)
         ELSE IF Len(digitsOf(msg)) \in 4..8 THEN intOf(digitsOf(msg))
         ELSE -1)

\* a reading of bare replies that finds no credit score in any of them
noScoreOf(msg) == -1

\* the credit score a bare reply gives, -1 if none
scoreOf(msg) ==
  With(digitsOf(msg),
       LAMBDA digits :
         IF Len(digits) = 3 /\ intOf(digits) \in 300..900 THEN intOf(digits)
         ELSE -1)

\* a dict with the one key k if v is a value, the empty dict otherwise
given(k, v) == IF v # -1 THEN k :> v ELSE <<>>

\* lines 601-616: inference by the recorded key
inferByKey(message, last_q_key) ==
  CASE last_q_key \in {"annual_income", "loan_amount"} ->
         given(last_q_key, amountOf(lower(strip(message))))
    [] last_q_key = "credit_score" ->
         given("credit_score", scoreOf(lower(strip(message))))
    [] OTHER -> <<>>

\* the tests of the prompt for the two amounts alone
inferredAmountFor(assistant_prompt, amount, score) ==
  IF assistant_prompt.empty THEN <<>>
  ELSE IF "annual income" \in assistant_prompt.mentions /\ amount # -1
  THEN "annual_income" :> amount
  ELSE IF "loan amount" \in assistant_prompt.mentions /\ amount # -1
  THEN "loan_amount" :> amount
  ELSE <<>>

\* the three tests of _infer_from_last_question, in the order of the source:
\* the first phrase of the prompt for which the reply gives a value decides
inferredFor(assistant_prompt, amount, score) ==
  IF assistant_prompt.empty THEN <<>>
  ELSE IF "annual income" \in assistant_prompt.mentions /\ amount # -1
  THEN "annual_income" :> amount
  ELSE IF "loan amount" \in assistant_prompt.mentions /\ amount # -1
  THEN "loan_amount" :> amount
  ELSE IF "credit score" \in assistant_prompt.mentions /\ score # -1
  THEN "credit_score" :> score
  ELSE <<>>

_infer_from_last_question(user_message, assistant_prompt) ==
  With(amountOf(lower(strip(user_message))),
       LAMBDA amount :
         inferredFor(assistant_prompt, amount,
                     scoreOf(lower(strip(user_message)))))

\* lines 600-619: the key first, the text of the prompt if the key gave nothing
inferred_from_context(message, last_q_key, assistant_prompt) ==
  With(IF last_q_key # "" THEN inferByKey(message, last_q_key) ELSE <<>>,
       LAMBDA by_key :
         IF by_key # <<>> THEN by_key
         ELSE _infer_from_last_question(message, assistant_prompt))

(***************************************************************************)
(* Inputs                                                                  *)
(***************************************************************************)
\* the scenario of the specification, one message per turn
Script ==
  <<<<"h", "i">>, <<"R", "o", "h", "a", "n", " ", "G", "u", "p", "t", "a">>, <<"r", "o", "h", "a", "n", "@", "e", "x", "a", "m", "p", "l", "e", ".", "c", "o", "m">>, <<"9", "8", "7", "6", "5", "4", "3", "2", "1", "0">>, <<"7", "5", "0", "0", "0">>,
    <<"5", "0", "0", "0", "0", "0">>, <<"1", "2">>, <<"2">>, <<"s", "a", "l", "a", "r", "i", "e", "d">>, <<"7", "2", "0">>>>

\* what a chat client sends otherwise: the two commands, a bare number, a
\* greeting that carries an e-mail address, a question, a request for the
\* eligibility check, and nothing
ChatMessages ==
  {<<"u", "p", "d", "a", "t", "e">>, <<"c", "o", "n", "t", "i", "n", "u", "e">>, <<"7", "5", "0", "0", "0">>, <<"h", "i", " ", "r", "o", "h", "a", "n", "@", "e", "x", "a", "m", "p", "l", "e", ".", "c", "o", "m">>, <<"w", "h", "a", "t", " ", "i", "s", " ", "e", "m", "i">>,
   <<"c", "h", "e", "c", "k", " ", "e", "l", "i", "g", "i", "b", "i", "l", "i", "t", "y">>, <<>>}

\* replies to the questions of the disambiguator
BareReplies == {<<"7", "2", "0">>, <<"7", "5", "0">>, <<"7", "5", "0", "0", "0">>, <<"5", " ", "l", "a", "k", "h">>, <<"1", "2">>, <<"9", "5", "0">>, <<"s", "a", "l", "a", "r", "i", "e", "d">>}

AllMessages == ChatMessages \cup {Script[i] : i \in 1..Len(Script)} \cup BareReplies

\* _extract_data_from_message, computed once per message
extractTable == [m \in AllMessages |-> _extract_data_from_message(m)]

extracted_data(message) == extractTable[message]

\* users: 0 is a request without a valid bearer token
MaxUsers == 1

Users == 0..MaxUsers

\* bounds on the tables
MaxApplications == 1

MaxChatSessions == 1

MaxVoiceCalls == 2

MaxPredictions == 2

\* application ids a client may name: none (0) and those the table can
\* hold, which exist or do not
ApplicationIds == 0..MaxApplications

\* what the language model does when the chat asks it for a free reply:
\* health() of the provider, the outcome of the HTTP call, and for status
\* 200 the text
llm_answer == Reply("llm_answer", {}, {}, FALSE)

llm_sorry == [Reply("llm_sorry", {}, {}, FALSE) EXCEPT !.sorry = TRUE]

NoLLM == [health |-> FALSE, outcome |-> "none", text |-> llm_sorry]

LLMOutcomes ==
  {NoLLM}
  \cup {[health |-> TRUE, outcome |-> "ok", text |-> t] : t \in {llm_answer, llm_sorry}}
  \cup {[health |-> TRUE, outcome |-> o, text |-> llm_sorry] :
          o \in {"non200", "connection_error", "error"}}


(***************************************************************************)
(* _analyze_conversation                                                   *)
(***************************************************************************)
\* any(word in message_lower for word in words)
containsAny(s, words) == \E i \in 1..Len(words) : Contains(s, words[i])

name_only_keywords ==
  {<<"l", "o", "a", "n">>, <<"a", "p", "p", "l", "y">>, <<"a", "p", "p", "l", "i", "c", "a", "t", "i", "o", "n">>, <<"a", "m", "o", "u", "n", "t">>, <<"b", "o", "r", "r", "o", "w">>, <<"c", "r", "e", "d", "i", "t">>, <<"s", "c", "o", "r", "e">>,
   <<"i", "n", "c", "o", "m", "e">>, <<"s", "a", "l", "a", "r", "y">>}

\* the lambda of lines 557-562, applied to message.strip()
nameOnly(s) ==
  LET words == split(s)
  IN  /\ Len(words) \in 1..3
      /\ ~\E i \in 1..Len(words) : lower(words[i]) \in name_only_keywords
      /\ \A i \in 1..Len(words) :
           isalphaCh(words[i][1]) =>
             /\ isupperCh(words[i][1])
             /\ \E j \in 2..Len(words[i]) : islowerCh(words[i][j])
      /\ bareNameShape(s)

NoAction == "None"

\* a classifier that looks for the loan keywords before anything else
intentLoanFirst(message, application) ==
  IF containsAny(lower(message), <<<<"l", "o", "a", "n">>, <<"a", "m", "o", "u", "n", "t">>, <<"b", "o", "r", "r", "o", "w">>, <<"n", "e", "e", "d", " ", "m", "o", "n", "e", "y">>>>)
  THEN [intent |-> "loan_inquiry", action |-> "collect_details"]
  ELSE IF containsAny(lower(message), <<<<"h", "e", "l", "l", "o">>, <<"h", "i">>, <<"h", "e", "y">>, <<"s", "t", "a", "r", "t">>, <<"b", "e", "g", "i", "n">>>>)
  THEN [intent |-> "greeting", action |-> "collect_details"]
  ELSE [intent |-> "general_inquiry", action |-> NoAction]

\* lines 544-588: the first rule that matches decides intent and action
intentOf(message, application) ==
  LET message_lower == lower(message)
      is(intent, action) == [intent |-> intent, action |-> action]
  IN  IF containsAny(message_lower, <<<<"h", "e", "l", "l", "o">>, <<"h", "i">>, <<"h", "e", "y">>, <<"s", "t", "a", "r", "t">>, <<"b", "e", "g", "i", "n">>>>)
      THEN is("greeting", "collect_details")
      ELSE IF containsAny(message_lower, <<<<"n", "a", "m", "e">>, <<"a", "g", "e">>, <<"i", "n", "c", "o", "m", "e">>, <<"s", "a", "l", "a", "r", "y">>>>)
      THEN is("providing_info", "collect_details")
      ELSE IF nameOnly(strip(message))
      THEN is("providing_info", "collect_details")
      ELSE IF containsAny(message_lower, <<<<"l", "o", "a", "n">>, <<"a", "m", "o", "u", "n", "t">>, <<"b", "o", "r", "r", "o", "w">>, <<"n", "e", "e", "d", " ", "m", "o", "n", "e", "y">>>>)
      THEN is("loan_inquiry", "collect_details")
      ELSE IF containsAny(message_lower,
                          <<<<"d", "o", "c", "u", "m", "e", "n", "t">>, <<"u", "p", "l", "o", "a", "d">>, <<"f", "i", "l", "e">>, <<"b", "a", "n", "k", " ", "s", "t", "a", "t", "e", "m", "e", "n", "t">>, <<"i", "d">>>>)
      THEN is("document_upload", "request_document")
      ELSE IF containsAny(message_lower,
                          <<<<"e", "l", "i", "g", "i", "b", "l", "e">>, <<"c", "h", "e", "c", "k">>, <<"q", "u", "a", "l", "i", "f", "y">>, <<"e", "l", "i", "g", "i", "b", "i", "l", "i", "t", "y">>>>)
      THEN is("eligibility_check",
              IF application # NoApplication /\ _has_required_fields(application)
              THEN "predict_eligibility" ELSE "collect_details")
      ELSE IF containsAny(message_lower, <<<<"v", "e", "r", "i", "f", "y">>, <<"o", "t", "p">>, <<"c", "o", "d", "e">>, <<"e", "m", "a", "i", "l">>>>)
      THEN is("verification", "send_otp")
      ELSE is("general_inquiry", NoAction)

intentTable == [m \in AllMessages |-> intentOf(m, NoApplication)]

RECURSIVE mergeOldestWins(_)
\* dict.update over the dicts newest first: the oldest value of a key stays
mergeOldestWins(dicts) ==
  IF Len(dicts) = 0 THEN <<>> ELSE dicts[1] @@ mergeOldestWins(Tail(dicts))

RECURSIVE mergeNewestWins(_)
\* dict.update over the dicts oldest first: the newest value of a key stays
mergeNewestWins(dicts) ==
  IF Len(dicts) = 0 THEN <<>>
  ELSE dicts[Len(dicts)] @@ mergeNewestWins(SubSeq(dicts, 1, Len(dicts) - 1))

\* .limit(10) of line 630 and .limit(15) of line 996
AnalyzeLimit == 10

CollectLimit == 15

\* Python's True as the value of a slot: a mark that is no value a slot
\* can hold, and that is truthy
True(k) == IF k \in NumericKeys THEN -1 ELSE <<"True">>

\* meta.collected_values of each session, oldest first
collectedValuesOf(sessions) ==
  [i \in 1..Len(sessions) |->
     IF Has(sessions[i].meta, "collected_values")
     THEN sessions[i].meta["collected_values"] ELSE <<>>]

\* lines 624-656: what earlier turns of a user without application
\* collected; keys that an assistant message lists as collected_fields are
\* promoted with the value True before the values are merged
previouslyCollected(user_id) ==
  LET recent == lastN(preApplicationSessions(user_id), AnalyzeLimit)
      previously_collected ==
        UNION {IF Has(recent[i].assistant_meta, "collected_fields")
               THEN recent[i].assistant_meta["collected_fields"] ELSE {} :
               i \in 1..Len(recent)}
      previously_values == mergeOldestWins(collectedValuesOf(recent))
  IN  [k \in previously_collected |-> True(k)] @@ previously_values

\* lines 590-666, with the intent and the action that lines 544-588 chose
\* and the collected data of lines 591-656
contextOf(base, collected_data, application) ==
  LET promoted == base.action = NoAction /\ DOMAIN collected_data # {}
  IN  [intent |-> IF promoted THEN "providing_info" ELSE base.intent,
       action |-> IF promoted THEN "collect_details" ELSE base.action,
       collected_data |-> collected_data,
       missing_fields |-> IF application # NoApplication
                          THEN _get_missing_fields(application) ELSE <<>>,
       next_question_key |-> ""]

_analyze_conversation(message, application, user_id) ==
  With(inferred_from_context(message,
                             _get_last_assistant_question_key(application, user_id),
                             _get_last_assistant_prompt(application, user_id))
       @@ extracted_data(message)
       @@ (IF user_id # 0 /\ application = NoApplication
           THEN previouslyCollected(user_id) ELSE <<>>),
       LAMBDA collected_data :
         contextOf(IF application = NoApplication THEN intentTable[message]
                   ELSE intentOf(message, application),
                   collected_data, application))

(***************************************************************************)
(* _fallback_single_question and _generate_conversational_response         *)
(***************************************************************************)
\* the key whose display name is d
keyOfDisplay(d) ==
  CASE d = "annual income" -> "annual_income"
    [] d = "credit score" -> "credit_score"
    [] d = "loan amount" -> "loan_amount"
    [] d = "loan term (months)" -> "loan_term_months"
    [] d = "number of dependents" -> "num_dependents"
    [] d = "employment status" -> "employment_status"
    [] OTHER -> d

\* the first element of a sequence of keys that lies in the set, or ""
firstIn(order, keys) ==
  LET hits == {i \in 1..Len(order) : order[i] \in keys}
  IN  IF hits = {} THEN "" ELSE order[Least(hits)]

_fallback_single_question(context, application) ==
  LET collected == context.collected_data
      listed == IF application # NoApplication
                THEN {keyOfDisplay(context.missing_fields[i]) :
                        i \in 1..Len(context.missing_fields)}
                ELSE {k \in {required_order[i] : i \in 1..Len(required_order)} :
                        ~Truthy(collected, k)}
      missing_keys ==
        IF /\ application = NoApplication
           /\ Truthy(collected, "email")
           /\ ~Truthy(collected, "full_name")
        THEN listed \ {"full_name"} ELSE listed
      key == firstIn(required_order, missing_keys)
  IN  IF key = "" THEN Reply("fallback_how_can_i_help", {}, {}, FALSE)
      ELSE Reply("fallback_question", {key}, phraseOf(key), FALSE)

\* svc.generate of the default provider (OllamaService.generate_response)
generate(llm) ==
  CASE llm.outcome = "ok" -> llm.text
    [] llm.outcome = "non200" -> ollama_unable_reply
    [] llm.outcome = "connection_error" -> ollama_unreachable_reply
    [] OTHER -> ollama_error_reply

\* the keys that the acknowledgement of lines 802-816 names: all but those
\* whose value is a bool
acknowledged(collected_data) ==
  {k \in DOMAIN collected_data : collected_data[k] # True(k)}

\* [raised, reply, context]: the reply and the context as the function
\* leaves it, or raised = TRUE where `response` is returned unassigned
_generate_conversational_response(message, context, application, llm) ==
  LET said(reply) == [raised |-> FALSE, reply |-> reply, context |-> context]
      missing == {context.missing_fields[i] : i \in 1..Len(context.missing_fields)}
      next_field == firstIn(required_order,
                            {k \in {required_order[i] : i \in 1..Len(required_order)} :
                               display_name(k) \in missing})
      noted == UNION {phraseOf(k) : k \in acknowledged(context.collected_data)}
      generated == generate(llm)
  IN  CASE context.intent = "greeting" -> said(greeting_reply)
        [] context.intent = "providing_info" ->
             [raised |-> FALSE,
              reply |-> Reply("providing_info",
                              IF next_field = "" THEN {} ELSE {next_field},
                              noted \cup phraseOf(next_field),
                              missing = {}),
              context |-> [context EXCEPT
                             !.next_question_key = next_field,
                             !.action = IF missing = {} THEN "request_document" ELSE @]]
        [] context.intent = "loan_inquiry" -> said(loan_inquiry_reply)
        [] context.intent = "document_upload" -> said(document_upload_reply)
        [] context.intent = "eligibility_check" ->
             IF context.action = "predict_eligibility" THEN said(predict_reply)
             ELSE IF missing # {}
             THEN said(Reply("eligibility_needs",
                             {keyOfDisplay(context.missing_fields[1])},
                             phraseOf(keyOfDisplay(context.missing_fields[1])), FALSE))
             ELSE [raised |-> TRUE, reply |-> llm_sorry, context |-> context]
        [] context.intent = "verification" -> said(verification_reply)
        [] OTHER ->
             IF ~llm.health THEN said(_fallback_single_question(context, application))
             ELSE IF generated.blank \/ generated.sorry
             THEN said(_fallback_single_question(context, application))
             ELSE said(generated)

(***************************************************************************)
(* _collect_applicant_details, _perform_eligibility_check,                 *)
(* _send_verification_otp                                                  *)
(***************************************************************************)
\* what ml_service.predict_eligibility may return; the score in percent
Predictions ==
  {[eligibility_score |-> 80, eligibility_status |-> <<"e", "l", "i", "g", "i", "b", "l", "e">>],
   [eligibility_score |-> 30, eligibility_status |-> <<"i", "n", "e", "l", "i", "g", "i", "b", "l", "e">>]}

\* the state a handler leaves behind and what it returns
Outcome(apps, sessions, mls, mails, result) ==
  [applications |-> apps, chat_sessions |-> sessions, ml_calls |-> mls,
   emails |-> mails, result |-> result]

\* candidate.get(k, default)
getOr(d, k, default) == IF Has(d, k) THEN d[k] ELSE default

\* the row a chat turn creates from the candidate values
chatApplication(id, user_id, candidate) ==
  (IF user_id # 0 THEN "user_id" :> user_id ELSE <<>>)
  @@ [id |-> id,
      full_name |-> getOr(candidate, "full_name", <<>>),
      email |-> getOr(candidate, "email", <<>>),
      phone |-> getOr(candidate, "phone", <<>>),
      annual_income |-> getOr(candidate, "annual_income", 0),
      credit_score |-> getOr(candidate, "credit_score", 0),
      loan_amount |-> getOr(candidate, "loan_amount", 0),
      loan_term_months |-> getOr(candidate, "loan_term_months", 12),
      num_dependents |-> getOr(candidate, "num_dependents", 0),
      employment_status |-> getOr(candidate, "employment_status", <<"u", "n", "e", "m", "p", "l", "o", "y", "e", "d">>),
      document_verified |-> FALSE,
      approval_status |-> <<"p", "e", "n", "d", "i", "n", "g">>]

\* the function, with the dict that _extract_data_from_message returned
collected(extracted, application, user_id) ==
  LET merged_values ==
        IF user_id # 0
        THEN mergeNewestWins(collectedValuesOf(
               lastN(preApplicationSessions(user_id), CollectLimit)))
        ELSE <<>>
      new_id == Len(applications) + 1
      returned(id, was_created) ==
        [application_created |-> was_created, application_id |-> id,
         collected_fields |-> DOMAIN extracted, collected_values |-> extracted]
  IN  IF DOMAIN extracted = {}
      THEN [applications |-> applications, result |-> <<>>]
      ELSE IF application = NoApplication
      THEN IF Has(extracted, "email")
           THEN [applications |->
                   Append(applications,
                          chatApplication(new_id, user_id,
                                          extracted @@ merged_values)),
                 result |-> returned(new_id, TRUE)]
           ELSE [applications |-> applications, result |-> returned(0, FALSE)]
      ELSE [applications |->
              [applications EXCEPT ![application["id"]] = extracted @@ application],
            result |-> returned(application["id"], TRUE)]

\* [applications, result]: the table afterwards and the dict returned
\* (<<>> for None)
_collect_applicant_details(message, application, user_id) ==
  With(extracted_data(message),
       LAMBDA extracted : collected(extracted, application, user_id))

\* a call of ml_service.predict_eligibility, as the log keeps it
MlCall(channel, application) ==
  [channel |-> channel, application_id |-> application["id"],
   document_verified |-> application["document_verified"]]

\* [applications, ml_calls, emails, result]
_perform_eligibility_check(apps, application_id, prediction) ==
  IF application_id \notin 1..Len(apps)
  THEN [applications |-> apps, ml_calls |-> ml_calls, emails |-> emails,
        result |-> [error |-> "No application found"]]
  ELSE [applications |->
          [apps EXCEPT ![application_id] =
             Put(Put(@, "eligibility_score", prediction.eligibility_score),
                 "eligibility_status", prediction.eligibility_status)],
        ml_calls |-> Append(ml_calls, MlCall("chat", apps[application_id])),
        emails |-> Append(emails, [application_id |-> application_id]),
        result |-> [eligibility_score |-> prediction.eligibility_score,
                    eligibility_status |-> prediction.eligibility_status,
                    notification_sent |-> TRUE]]

\* the dict returned; the e-mail itself is not part of the model
_send_verification_otp(application) ==
  IF application = NoApplication \/ ~Truthy(application, "email")
  THEN [error |-> "No email address available"]
  ELSE [otp_sent |-> TRUE]

(***************************************************************************)
(* POST /chat/message                                                      *)
(***************************************************************************)
NullReply == Reply("none", {}, {}, FALSE)

\* the body of a ChatResponse that the model keeps, and the conversation
\* context the turn ended with
ChatResponse(status, message, action, application_id, collected_values, context) ==
  [endpoint |-> "send_message", status |-> status, message |-> message,
   action |-> action, application_id |-> application_id,
   collected_values |-> collected_values, intent |-> context.intent,
   context_action |-> context.action, asked_key |-> context.next_question_key,
   missing_fields |-> context.missing_fields,
   consulted |-> context.intent = "general_inquiry"]

NoContext ==
  [intent |-> "none", action |-> NoAction, next_question_key |-> "",
   missing_fields |-> <<>>]

\* HTTPException(500, "Failed to process message"): nothing was committed
ChatFailure ==
  Outcome(applications, chat_sessions, ml_calls, emails,
          ChatResponse(500, NullReply, NoAction, 0, <<>>, NoContext))

\* the nine columns of prev_info that are not None
prev_info(application) ==
  Only(application,
       {"full_name", "email", "phone", "annual_income", "credit_score",
        "loan_amount", "loan_term_months", "num_dependents", "employment_status"})

\* the row that lines 325-335 add
ChatSession(user_id, application_id, message, reply, assistant_meta, meta) ==
  [user_id |-> user_id, application_id |-> application_id, user |-> message,
   assistant |-> reply, assistant_meta |-> assistant_meta, meta |-> meta]

\* lines 261-383, with the reply generated and the outcome of
\* _collect_applicant_details, were it called
concluded(req, application, prediction, generated, collect) ==
  LET user_id == req.user_id
      context == generated.context
      app_id == IF application = NoApplication THEN 0 ELSE application["id"]
      collecting == context.action = "collect_details"
      created == /\ collecting
                 /\ collect.result # <<>>
                 /\ application = NoApplication
                 /\ collect.result.application_created
      apps1 == IF collecting THEN collect.applications ELSE applications
      first == IF collecting THEN collect.result
               ELSE IF context.action = "send_otp"
               THEN _send_verification_otp(application)
               ELSE <<>>
      predicts ==
        \/ context.action = "predict_eligibility"
        \/ /\ first = <<>>
           /\ app_id # 0
           /\ _has_required_fields(apps1[app_id])
           /\ context.intent = "providing_info"
      checked == _perform_eligibility_check(apps1, app_id, prediction)
      action_result == IF predicts THEN checked.result ELSE first
      collected_fields ==
        IF Has(action_result, "collected_fields")
        THEN action_result["collected_fields"] ELSE {}
      assistant_meta ==
        Only(action_result, {"collected_fields", "application_created", "application_id"})
        @@ (IF context.next_question_key # ""
            THEN "last_question" :> context.next_question_key ELSE <<>>)
      collected_values ==
        context.collected_data @@ [k \in collected_fields |-> True(k)]
      session == ChatSession(user_id, req.application_id, req.message,
                             generated.reply, assistant_meta,
                             "collected_values" :> collected_values)
      basics == {"annual_income", "credit_score", "loan_amount"}
      should_open_form ==
        /\ context.intent \in {"providing_info", "loan_inquiry"}
        /\ IF application # NoApplication
           THEN context.missing_fields = <<>>
           ELSE \A k \in basics : Truthy(context.collected_data, k)
      answered_id ==
        IF Has(action_result, "application_id") THEN action_result["application_id"]
        ELSE req.application_id
  IN  IF generated.raised THEN ChatFailure
      ELSE IF created
      THEN Outcome(collect.applications, chat_sessions, ml_calls, emails,
                   ChatResponse(200, upload_documents_reply, "show_upload_buttons",
                                Len(collect.applications),
                                collect.result.collected_values, context))
      ELSE Outcome(IF predicts THEN checked.applications ELSE apps1,
                   Append(chat_sessions, session),
                   IF predicts THEN checked.ml_calls ELSE ml_calls,
                   IF predicts THEN checked.emails ELSE emails,
                   ChatResponse(200, generated.reply,
                                IF should_open_form THEN "open_form" ELSE NoAction,
                                answered_id,
                                IF DOMAIN context.collected_data # {}
                                THEN context.collected_data
                                ELSE IF Has(action_result, "collected_values")
                                THEN action_result["collected_values"] ELSE <<>>,
                                context))

\* lines 252-383, entered with the application that lines 52-93 left
conversation(req, application, prediction) ==
  With(_analyze_conversation(req.message, application, req.user_id),
       LAMBDA analysed :
         With(_generate_conversational_response(req.message, analysed,
                                                application, req.llm),
              LAMBDA generated :
                With(_collect_applicant_details(req.message, application,
                                                req.user_id),
                     LAMBDA collect :
                       concluded(req, application, prediction, generated,
                                 collect))))

\* without an application the prediction service is not reached
NoPrediction == [eligibility_score |-> 0, eligibility_status |-> <<>>]

\* the handler: lines 52-93 answer for an application that exists, unless
\* the message is "update"; line 98 fails for a message without
\* application id; all other requests reach the conversation, and none of
\* them with an application
send_message_result(req) ==
  LET found == IF req.application_id # 0 THEN getApplication(req.application_id)
               ELSE NoApplication
      command == lower(strip(req.message))
      shown == [NoContext EXCEPT !.intent = "saved_information"]
      answered(reply, action) ==
        Outcome(applications, chat_sessions, ml_calls, emails,
                ChatResponse(200, reply, action, found["id"], prev_info(found),
                             shown))
  IN  CASE found # NoApplication /\ command # <<"u", "p", "d", "a", "t", "e">> ->
             IF ~Has(found, "annual_income") \/ ~Has(found, "loan_amount")
             THEN ChatFailure   \* format(None, ",")
             ELSE IF command = <<"c", "o", "n", "t", "i", "n", "u", "e">>
             THEN answered(upload_documents_reply, "show_upload_buttons")
             ELSE answered(saved_information_reply, NoAction)
        [] found # NoApplication /\ command = <<"u", "p", "d", "a", "t", "e">>
           /\ (~Has(found, "annual_income") \/ ~Has(found, "loan_amount")) ->
             ChatFailure   \* format(None, ",")
        [] req.application_id = 0 /\ strip(req.message) # <<>> ->
             ChatFailure   \* line 98 reads re, a local that line 142 binds
        [] OTHER -> conversation(req, NoApplication, NoPrediction)

ChatRequest(message, application_id, user_id, llm, scripted) ==
  [endpoint |-> "send_message", message |-> message,
   application_id |-> application_id, user_id |-> user_id, llm |-> llm,
   scripted |-> scripted]

\* the turn, with the bounds of the model on what it may add
Turn(req) ==
  \E out \in {send_message_result(req)} :
    /\ Len(out.applications) <= MaxApplications
    /\ Len(out.chat_sessions) <= MaxChatSessions
    /\ out.result.consulted \/ req.llm = NoLLM
    /\ applications' = out.applications
    /\ chat_sessions' = out.chat_sessions
    /\ ml_calls' = out.ml_calls
    /\ emails' = out.emails
    /\ request' = req
    /\ response' = out.result
    /\ UNCHANGED voice_calls

\* the provider is consulted for a message in which lines 544-588 find no
\* intent, if that
LLMOutcomesFor(message) ==
  IF intentTable[message].intent = "general_inquiry" THEN LLMOutcomes ELSE {NoLLM}

\* the provider's behaviour is an input of the turns that consult it
send_message ==
  \E message \in ChatMessages, application_id \in ApplicationIds, user_id \in Users :
    \E llm \in LLMOutcomesFor(message) :
      /\ Turn(ChatRequest(message, application_id, user_id, llm, FALSE))
      /\ UNCHANGED <<script, stream, otp, manager, openrouter>>

(***************************************************************************)
(* Applications, documents and the prediction endpoint                     *)
(*                                                                         *)
(* Of the columns of loan_applications the model keeps the slot fields,    *)
(* the columns the voice flow writes, document_verified, extracted_data    *)
(* (its uploaded_documents, as the sequence of their ids),                 *)
(* eligibility_score, eligibility_status and approval_status.              *)
(***************************************************************************)
\* bodies of POST /loan/applications
CreateBodies ==
  {[full_name |-> <<"R", "o", "h", "a", "n", " ", "G", "u", "p", "t", "a">>, email |-> <<"r", "o", "h", "a", "n", "@", "e", "x", "a", "m", "p", "l", "e", ".", "c", "o", "m">>,
    phone |-> <<"9", "8", "7", "6", "5", "4", "3", "2", "1", "0">>, annual_income |-> 900000, credit_score |-> 720,
    loan_amount |-> 500000, loan_term_months |-> 12, num_dependents |-> 2,
    employment_status |-> <<"s", "a", "l", "a", "r", "i", "e", "d">>]}

HttpStatus(endpoint, status, application_id) ==
  [endpoint |-> endpoint, status |-> status, application_id |-> application_id]

create_loan_application ==
  \E body \in CreateBodies, user_id \in Users :
    LET id == Len(applications) + 1
        db_application ==
          [id |-> id,
           user_id |-> IF user_id # 0 THEN user_id ELSE 1,
           full_name |-> body.full_name,
           email |-> body.email,
           phone |-> body.phone,
           annual_income |-> body.annual_income,
           loan_amount |-> body.loan_amount,
           loan_term_months |-> body.loan_term_months,
           num_dependents |-> body.num_dependents,
           employment_status |-> body.employment_status,
           credit_score |-> body.credit_score,
           age |-> 25,
           gender |-> <<"N", "o", "t", " ", "s", "p", "e", "c", "i", "f", "i", "e", "d">>,
           marital_status |-> <<"N", "o", "t", " ", "s", "p", "e", "c", "i", "f", "i", "e", "d">>,
           region |-> <<"N", "o", "t", " ", "s", "p", "e", "c", "i", "f", "i", "e", "d">>,
           loan_purpose |-> <<"N", "o", "t", " ", "s", "p", "e", "c", "i", "f", "i", "e", "d">>,
           salary_credit_frequency |-> <<"M", "o", "n", "t", "h", "l", "y">>,
           monthly_income |-> IF body.annual_income # 0
                              THEN body.annual_income \div 12 ELSE 0,
           employment_type |-> IF body.employment_status # <<>>
                               THEN body.employment_status ELSE <<"N", "o", "t", " ", "s", "p", "e", "c", "i", "f", "i", "e", "d">>,
           loan_amount_requested |-> body.loan_amount,
           loan_tenure_years |-> IF body.loan_term_months # 0
                                 THEN body.loan_term_months \div 12 ELSE 1,
           dependents |-> body.num_dependents,
           existing_emi |-> 0,
           approval_status |-> <<"p", "e", "n", "d", "i", "n", "g">>,
           document_verified |-> FALSE]
    IN  /\ id <= MaxApplications
        /\ applications' = Append(applications, db_application)
        /\ request' = [endpoint |-> "create_loan_application", user_id |-> user_id]
        /\ response' = HttpStatus("create_loan_application", 200, id)
        /\ UNCHANGED <<chat_sessions, voice_calls, ml_calls, emails, script, stream, otp, manager, openrouter>>

identity_group == {<<"a", "a", "d", "h", "a", "a", "r">>, <<"p", "a", "n">>, <<"k", "y", "c">>}

financial_group == {<<"b", "a", "n", "k", "_", "s", "t", "a", "t", "e", "m", "e", "n", "t">>, <<"s", "a", "l", "a", "r", "y", "_", "s", "l", "i", "p">>}

\* the ids of the documents an application has on record
uploaded_documents(application) ==
  IF Has(application, "extracted_data")
     /\ Has(application["extracted_data"], "uploaded_documents")
  THEN application["extracted_data"]["uploaded_documents"]
  ELSE <<>>

has_identity(uploaded) == \E i \in 1..Len(uploaded) : uploaded[i] \in identity_group

has_financial(uploaded) == \E i \in 1..Len(uploaded) : uploaded[i] \in financial_group

\* two of the types that OCRService._identify_document_type can return, one
\* of them financial; no type it returns is an identity document
DocumentTypes == {<<"B", "a", "n", "k", " ", "S", "t", "a", "t", "e", "m", "e", "n", "t">>, <<"P", "a", "s", "s", "p", "o", "r", "t">>}

\* doc_type_map.get(raw, raw.lower().replace(" ", "_"))
doc_type_of(doc_type_raw) ==
  CASE doc_type_raw \in {<<"A", "a", "d", "h", "a", "a", "r">>, <<"A", "a", "d", "h", "a", "a", "r", " ", "C", "a", "r", "d">>} -> <<"a", "a", "d", "h", "a", "a", "r">>
    [] doc_type_raw \in {<<"P", "A", "N">>, <<"P", "A", "N", " ", "C", "a", "r", "d">>} -> <<"p", "a", "n">>
    [] doc_type_raw = <<"K", "Y", "C">> -> <<"k", "y", "c">>
    [] doc_type_raw = <<"B", "a", "n", "k", " ", "S", "t", "a", "t", "e", "m", "e", "n", "t">> -> <<"b", "a", "n", "k", "_", "s", "t", "a", "t", "e", "m", "e", "n", "t">>
    [] doc_type_raw = <<"S", "a", "l", "a", "r", "y", " ", "S", "l", "i", "p">> -> <<"s", "a", "l", "a", "r", "y", "_", "s", "l", "i", "p">>
    [] OTHER -> [i \in 1..Len(doc_type_raw) |->
                   IF doc_type_raw[i] = " " THEN "_" ELSE lowerCh(doc_type_raw[i])]

\* uploaded with the document appended unless its id is there already
withDocument(uploaded, doc) == IF InSeq(uploaded, doc) THEN uploaded ELSE Append(uploaded, doc)

\* POST /ocr/document/{application_id} with a file the OCR can read
verify_document ==
  \E application_id \in 1..(MaxApplications + 1), document_type \in DocumentTypes :
    LET app == getApplication(application_id)
        uploaded_docs == withDocument(uploaded_documents(app),
                                      doc_type_of(strip(document_type)))
        prev_data == IF Has(app, "extracted_data") THEN app["extracted_data"] ELSE <<>>
        stored ==
          Put(Put(app, "extracted_data",
                  [document_type |-> document_type,
                   uploaded_documents |-> uploaded_docs] @@ prev_data),
              "document_verified",
              has_identity(uploaded_docs) /\ has_financial(uploaded_docs))
    IN  /\ request' = [endpoint |-> "verify_document",
                       application_id |-> application_id]
        /\ IF app = NoApplication
           THEN /\ response' = HttpStatus("verify_document", 404, application_id)
                /\ UNCHANGED applications
           ELSE /\ response' = HttpStatus("verify_document", 200, application_id)
                /\ applications' = [applications EXCEPT ![application_id] = stored]
        /\ UNCHANGED <<chat_sessions, voice_calls, ml_calls, emails, script, stream, otp, manager, openrouter>>

RECURSIVE withDocuments(_, _)
\* lines 326-337: every provided document that is not there yet is appended
withDocuments(uploaded, provided) ==
  IF Len(provided) = 0 THEN uploaded
  ELSE withDocuments(withDocument(uploaded, Head(provided)), Tail(provided))

\* bodies of PUT /loan/applications/{id}/verify-document
VerifyBodies ==
  {<<>>,
   [extracted_data |-> [uploaded_documents |-> <<<<"a", "a", "d", "h", "a", "a", "r">>>>, credit_score |-> 0]]}

verify_application_document ==
  \E application_id \in 1..(MaxApplications + 1), body \in VerifyBodies :
    LET app == getApplication(application_id)
        provided == IF Has(body, "extracted_data") THEN body["extracted_data"]
                          ELSE <<>>
        prev == IF Has(app, "extracted_data") THEN app["extracted_data"] ELSE <<>>
        provided_docs == IF Has(provided, "uploaded_documents")
                         THEN provided["uploaded_documents"] ELSE <<>>
        uploaded == withDocuments(uploaded_documents(app), provided_docs)
        merged == ("uploaded_documents" :> uploaded) @@ provided @@ prev
        filed == Put(Put(app, "extracted_data", merged),
                     "document_verified",
                     has_identity(uploaded) /\ has_financial(uploaded))
        stored == PutFrom(filed, "credit_score", provided)
    IN  /\ request' = [endpoint |-> "verify_application_document",
                       application_id |-> application_id]
        /\ IF app = NoApplication
           THEN /\ response' = HttpStatus("verify_application_document", 404,
                                          application_id)
                /\ UNCHANGED applications
           ELSE IF ~app["document_verified"]
           THEN /\ response' = HttpStatus("verify_application_document", 400,
                                          application_id)
                /\ UNCHANGED applications
           ELSE /\ response' = HttpStatus("verify_application_document", 200,
                                          application_id)
                /\ applications' = [applications EXCEPT ![application_id] = stored]
        /\ UNCHANGED <<chat_sessions, voice_calls, ml_calls, emails, script, stream, otp, manager, openrouter>>

\* bodies of PUT /loan/applications/{id}: any JSON object
UpdateBodies ==
  {[document_verified |-> TRUE],
   [extracted_data |-> [uploaded_documents |-> <<<<"p", "a", "n">>, <<"s", "a", "l", "a", "r", "y", "_", "s", "l", "i", "p">>>>]],
   [annual_income |-> 600000, no_such_column |-> 1]}

\* hasattr(app, key)
LoanApplicationColumns ==
  {"id", "user_id", "full_name", "email", "phone", "age", "gender",
   "marital_status", "region", "salary_credit_frequency", "monthly_income",
   "employment_type", "loan_amount_requested", "loan_tenure_years",
   "credit_score", "loan_purpose", "dependents", "existing_emi",
   "annual_income", "loan_amount", "loan_term_months", "num_dependents",
   "employment_status", "document_verified", "extracted_data",
   "eligibility_score", "eligibility_status", "approval_status"}

update_application ==
  \E application_id \in 1..(MaxApplications + 1), update_data \in UpdateBodies :
    LET app == getApplication(application_id)
        stored == Only(update_data, LoanApplicationColumns) @@ app
    IN  /\ request' = [endpoint |-> "update_application",
                       application_id |-> application_id]
        /\ IF app = NoApplication
           THEN /\ response' = HttpStatus("update_application", 404, application_id)
                /\ UNCHANGED applications
           ELSE /\ response' = HttpStatus("update_application", 200, application_id)
                /\ applications' = [applications EXCEPT ![application_id] = stored]
        /\ UNCHANGED <<chat_sessions, voice_calls, ml_calls, emails, script, stream, otp, manager, openrouter>>

\* POST /loan/predict-for-application/{id}, for a prediction that returns
predict_for_application ==
  \E application_id \in 1..(MaxApplications + 1), prediction \in Predictions :
    LET app == getApplication(application_id)
        stored == Put(Put(app, "eligibility_score", prediction.eligibility_score),
                      "eligibility_status", prediction.eligibility_status)
    IN  /\ request' = [endpoint |-> "predict_for_application",
                       application_id |-> application_id]
        /\ IF app = NoApplication
           THEN /\ response' = HttpStatus("predict_for_application", 404,
                                          application_id)
                /\ UNCHANGED <<applications, ml_calls>>
           ELSE /\ Len(ml_calls) < MaxPredictions
                /\ response' = HttpStatus("predict_for_application", 200,
                                          application_id)
                /\ applications' = [applications EXCEPT ![application_id] = stored]
                /\ ml_calls' = Append(ml_calls, MlCall("predict_for_application", app))
        /\ UNCHANGED <<chat_sessions, voice_calls, emails, script, stream, otp, manager, openrouter>>

(***************************************************************************)
(* The turn-based voice agent (voice_routes.py)                            *)
(*                                                                         *)
(* A value that may be None is a sequence of length 0 (None) or 1.  The    *)
(* numbers of the language model's JSON are integers.                      *)
(***************************************************************************)
\* d.get(k)
opt(d, k) == IF Has(d, k) THEN <<d[k]>> ELSE <<>>

\* bool(v) for an optional value of the key k
truthyOpt(o, k) ==
  /\ Len(o) = 1
  /\ IF k \in NumericKeys THEN o[1] # 0 ELSE o[1] # <<>>

\* Python's `a or b` on optional values of the key k
orOpt(a, b, k) == IF truthyOpt(a, k) THEN a ELSE b

\* the dict {k: v} of an optional value, without the key if it is None
fromOpt(k, o) == IF Len(o) = 0 THEN <<>> ELSE k :> o[1]

isWordCh(c) == isalnumCh(c) \/ c = "_"

\* \bw\b matches at i
wholeWordAt(s, i, w) ==
  /\ StartsAt(s, i, w)
  /\ i = 1 \/ ~isWordCh(s[i - 1])
  /\ i + Len(w) > Len(s) \/ ~isWordCh(s[i + Len(w)])

\* re.search(r"\b(w1|w2|...)\b", s)
wholeWord(s, ws) == \E i \in 1..Len(s) : \E w \in ws : wholeWordAt(s, i, w)

\* str.title()
title(s) ==
  [i \in 1..Len(s) |->
     IF i = 1 \/ ~isalphaCh(s[i - 1]) THEN upperCh(s[i]) ELSE lowerCh(s[i])]

\* the text without the characters that satisfy P
without(s, P(_)) == SelectSeq(s, LAMBDA c : ~P(c))

\* the number that [0-9]*\.?[0-9]+ matches at the start of s, times the
\* multiplier, as int() takes it; the product is taken exactly
leadingTimes(s, multiplier) ==
  LET e == RunEnd(s, 1, isdigitCh)
      f == unitNumberEnd(s, 1)
      whole == intOf(SubSeq(s, 1, e))
      frac == IF f > e THEN intOf(SubSeq(s, e + 2, f)) ELSE 0
      places == IF f > e THEN f - e - 1 ELSE 0
  IN  IF f < 1 THEN -1
      ELSE IF whole >= BigNum \div multiplier THEN BigNum
      ELSE whole * multiplier + (frac * multiplier) \div pow10(places)

\* the multiplier of the unit that s names, 1 if it names none
unitOf(s) ==
  IF Contains(s, <<"c", "r", "o", "r", "e">>) THEN 10000000
  ELSE IF Contains(s, <<"l", "a", "k", "h">>) \/ Contains(s, <<"l", "a", "c">>) THEN 100000
  ELSE IF Contains(s, <<"t", "h", "o", "u", "s", "a", "n", "d">>) \/ (Len(s) > 0 /\ s[Len(s)] = "k") THEN 1000
  ELSE 1

\* (num or 0) * multiplier with a unit, num without
amountIn(s) ==
  With(unitOf(s),
       LAMBDA multiplier :
         With(leadingTimes(s, multiplier),
              LAMBDA amount : IF amount = -1 /\ multiplier # 1 THEN 0 ELSE amount))

\* _normalize_amount of a text, as int() takes it: -1 for None
_normalize_amount(value) ==
  amountIn(without(lower(strip(value)), LAMBDA c : c = ","))

\* the 13 fields of the detailed form, in asking order
voice_required ==
  <<"age", "gender", "marital_status", "employment_type", "monthly_income",
    "loan_amount", "loan_tenure_years", "credit_score", "region",
    "loan_purpose", "dependents", "existing_emi", "salary_credit_frequency">>

\* v is None or a blank string; 0 counts as a value
_missing_fields(structured) ==
  SelectSeq(voice_required,
            LAMBDA f : \/ ~Has(structured, f)
                       \/ f \notin NumericKeys /\ strip(structured[f]) = <<>>)

\* re.search(r"(kw1|kw2|...)[^0-9]*(\d{lo,hi})", s): the digits, or <<>>
keyword_digits(s, kws, lo, hi) ==
  LET numberAt(i, k) == RunEnd(s, i + Len(kws[k]), LAMBDA c : ~isdigitCh(c)) + 1
      hit(i, k) == StartsAt(s, i, kws[k]) /\ digitsAt(s, numberAt(i, k), lo)
      starts == {i \in 1..Len(s) : \E k \in 1..Len(kws) : hit(i, k)}
  IN  IF starts = {} THEN <<>>
      ELSE LET i == Least(starts)
               k == Least({j \in 1..Len(kws) : hit(i, j)})
               p == numberAt(i, k)
               e == RunEnd(s, p, isdigitCh)
           IN  SubSeq(s, p, IF e > p + hi - 1 THEN p + hi - 1 ELSE e)

\* re.search(r"\b([3-9]\d{2})\b", s): the first match as a number, or -1
three_digits(s) ==
  LET at(i) == /\ digitsAt(s, i, 3)
               /\ DigitVal(s[i]) >= 3
               /\ i = 1 \/ ~isWordCh(s[i - 1])
               /\ i + 3 > Len(s) \/ ~isWordCh(s[i + 3])
      starts == {i \in 1..Len(s) : at(i)}
  IN  IF starts = {} THEN -1 ELSE intOf(SubSeq(s, Least(starts), Least(starts) + 2))

banned_names == {<<"m", "a", "l", "e">>, <<"f", "e", "m", "a", "l", "e">>, <<"m", "a", "n">>, <<"w", "o", "m", "a", "n">>, <<"b", "o", "y">>, <<"g", "i", "r", "l">>}

\* one to n words, each [A-Za-z][A-Za-z\-']+
plainNameShape(s, n) ==
  LET ws == split(s)
  IN  /\ Len(ws) \in 1..n
      /\ \A i \in 1..Len(ws) : wordEndAt(ws[i], 1, isNameCh) = Len(ws[i])

\* " ".join(p.capitalize() for p in name.split())
capitalized(name) == join(mapSeq(capitalize, split(name)))

\* the amount of the income branch or the loan branch of
\* _local_extract_structured: lakh/crore next to one of the words, else the
\* digits that follow one of the words; -1 for None
local_amount(s_lower, unit, words, monthly) ==
  IF unit # 0 /\ containsAny(s_lower, words)
  THEN With(unitValue(s_lower, unit),
            LAMBDA amount :
              IF monthly /\ Contains(s_lower, <<"a", "n", "n", "u", "a", "l">>) /\ amount < BigNum
              THEN roundDiv(amount, 12) ELSE amount)
  ELSE With(keyword_digits(s_lower, words, 4, 8),
            LAMBDA digits : IF digits # <<>> THEN intOf(digits) ELSE -1)

\* lines 250-266 and 308-311: the name, or ""
local_name(text) ==
  With(With(name_phrase(lower(text)),
            LAMBDA phrase :
              IF phrase # <<>> THEN capitalized(phrase)
              ELSE IF plainNameShape(text, 3) THEN capitalized(strip(text))
              ELSE <<>>),
       LAMBDA name : IF lower(strip(name)) \in banned_names THEN <<>> ELSE name)

\* the dict of the values found
localFound(name, monthly_income, loan_amount, credit_score) ==
  entry("name", name # <<>>, name)
  @@ entry("monthly_income", monthly_income # -1, monthly_income)
  @@ entry("loan_amount", loan_amount # -1, loan_amount)
  @@ entry("credit_score", credit_score \in 300..900, credit_score)

_local_extract_structured(text) ==
  With(unit_match(lower(text)),
       LAMBDA unit :
         localFound(local_name(text),
                    local_amount(lower(text), unit, <<<<"i", "n", "c", "o", "m", "e">>, <<"s", "a", "l", "a", "r", "y">>, <<"e", "a", "r", "n">>>>, TRUE),
                    local_amount(lower(text), unit, <<<<"l", "o", "a", "n">>, <<"b", "o", "r", "r", "o", "w">>, <<"n", "e", "e", "d">>>>, FALSE),
                    three_digits(lower(text))))

\* the aliases of _normalize_employment_type
salaried_aliases ==
  {<<"s", "a", "l", "a", "r", "i", "e", "d">>, <<"s", "a", "l", "a", "r", "y">>, <<"s", "a", "l", "l", "e", "r", "y">>, <<"s", "a", "l", "a", "r", "i", "e">>, <<"s", "a", "l", "a", "r", "i", "d">>, <<"c", "e", "l", "e", "r", "y">>, <<"s", "e", "l", "l", "e", "r", "y">>,
   <<"s", "a", "l", "a", "r", "i">>, <<"s", "a", "l", "a", "r", "i", "e", "d", " ", "e", "m", "p", "l", "o", "y", "e", "e">>}

self_emp_aliases ==
  {<<"s", "e", "l", "f", "-", "e", "m", "p", "l", "o", "y", "e", "d">>, <<"s", "e", "l", "f", " ", "e", "m", "p", "l", "o", "y", "e", "d">>, <<"s", "e", "l", "f", "e", "m", "p", "l", "o", "y", "e", "d">>, <<"f", "r", "e", "e", "l", "a", "n", "c", "e", "r">>, <<"c", "o", "n", "s", "u", "l", "t", "a", "n", "t">>,
   <<"c", "o", "n", "t", "r", "a", "c", "t", "o", "r">>, <<"e", "n", "t", "r", "e", "p", "r", "e", "n", "e", "u", "r">>, <<"b", "u", "s", "i", "n", "e", "s", "s", " ", "o", "w", "n", "e", "r">>}

business_aliases == {<<"b", "u", "s", "i", "n", "e", "s", "s">>, <<"t", "r", "a", "d", "e", "r">>, <<"m", "e", "r", "c", "h", "a", "n", "t">>}

unemployed_aliases == {<<"u", "n", "e", "m", "p", "l", "o", "y", "e", "d">>, <<"n", "o", " ", "j", "o", "b">>, <<"j", "o", "b", "l", "e", "s", "s">>}

\* of an optional value; the result is optional
_normalize_employment_type(val) ==
  LET s == lower(strip(val[1]))
  IN  IF ~truthyOpt(val, "employment_type") THEN <<>>
      ELSE IF s \in salaried_aliases THEN <<<<"S", "a", "l", "a", "r", "i", "e", "d">>>>
      ELSE IF s \in self_emp_aliases THEN <<<<"S", "e", "l", "f", "-", "E", "m", "p", "l", "o", "y", "e", "d">>>>
      ELSE IF s \in business_aliases THEN <<<<"B", "u", "s", "i", "n", "e", "s", "s">>>>
      ELSE IF s \in unemployed_aliases THEN <<<<"U", "n", "e", "m", "p", "l", "o", "y", "e", "d">>>>
      ELSE IF Contains(s, <<"s", "a", "l", "a", "r", "y">>) \/ Contains(s, <<"s", "a", "l", "a", "r">>) \/ Contains(s, <<"c", "e", "l", "e", "r", "y">>)
      THEN <<<<"S", "a", "l", "a", "r", "i", "e", "d">>>>
      ELSE IF Contains(s, <<"s", "e", "l", "f">>) /\ Contains(s, <<"e", "m", "p", "l", "o", "y">>) THEN <<<<"S", "e", "l", "f", "-", "E", "m", "p", "l", "o", "y", "e", "d">>>>
      ELSE IF Contains(s, <<"b", "u", "s", "i", "n", "e", "s", "s">>) THEN <<<<"B", "u", "s", "i", "n", "e", "s", "s">>>>
      ELSE <<title(s)>>

(***************************************************************************)
(* POST /voice/voice_agent                                                 *)
(***************************************************************************)
\* what speech_to_text returns
VoiceTranscripts == {<<"i", " ", "h", "a", "v", "e", " ", "n", "o", " ", "c", "r", "e", "d", "i", "t", " ", "s", "c", "o", "r", "e">>, <<"m", "y", " ", "c", "r", "e", "d", "i", "t", " ", "s", "c", "o", "r", "e", " ", "i", "s", " ", "7", "5", "0">>, <<"7", "5", "0", "0", "0">>}

\* what ollama_service.extract_structured_data returns: {} when the
\* provider fails, else the JSON object of its answer
VoiceExtractions ==
  {<<>>,
   [credit_score |-> 0, monthly_income |-> 0],
   [age |-> 30, gender |-> <<"m", "a", "l", "e">>, marital_status |-> <<"s", "i", "n", "g", "l", "e">>,
    employment_type |-> <<"s", "a", "l", "a", "r", "i", "e", "d">>],
   [name |-> <<"R", "o", "h", "a", "n", " ", "G", "u", "p", "t", "a">>, monthly_income |-> 75000, credit_score |-> 720,
    loan_amount |-> 500000, age |-> 30, gender |-> <<"m", "a", "l", "e">>,
    marital_status |-> <<"s", "i", "n", "g", "l", "e">>, employment_type |-> <<"s", "a", "l", "a", "r", "i", "e", "d">>,
    loan_tenure_years |-> 1, region |-> <<"s", "o", "u", "t", "h">>, loan_purpose |-> <<"h", "o", "m", "e">>,
    dependents |-> 2, existing_emi |-> 0, salary_credit_frequency |-> <<"m", "o", "n", "t", "h", "l", "y">>]}

localTable == [t \in VoiceTranscripts |-> _local_extract_structured(t)]

\* n * 12, capped
times12(n) == IF n >= BigNum \div 12 THEN BigNum ELSE n * 12

\* lines 406-466: the structured values of the turn.  float() and int() of
\* the JSON numbers leave the integers of the model as they are.
voice_structured(local, sx, t_lower) ==
  LET both(k) == orOpt(opt(sx, k), opt(local, k), k)
      or2(k, k2) == orOpt(opt(sx, k), opt(sx, k2), k)
      gender_from_text ==
        IF wholeWord(t_lower, {<<"f", "e", "m", "a", "l", "e">>, <<"w", "o", "m", "a", "n">>, <<"w", "o", "m", "e", "n">>}) THEN <<<<"F", "e", "m", "a", "l", "e">>>>
        ELSE IF wholeWord(t_lower, {<<"m", "a", "l", "e">>, <<"m", "a", "n">>, <<"m", "e", "n">>}) THEN <<<<"M", "a", "l", "e">>>>
        ELSE <<>>
      name == orOpt(orOpt(both("name"), opt(sx, "full_name"), "name"),
                    opt(sx, "name"), "name")
      sane == IF truthyOpt(name, "name") /\ lower(strip(name[1])) \in banned_names
              THEN <<>> ELSE name
  IN  fromOpt("name", sane)
      @@ fromOpt("monthly_income",
                 orOpt(both("monthly_income"), opt(sx, "monthly_income"),
                       "monthly_income"))
      @@ fromOpt("credit_score",
                 orOpt(both("credit_score"), opt(sx, "credit_score"), "credit_score"))
      @@ fromOpt("loan_amount",
                 orOpt(both("loan_amount"), opt(sx, "loan_amount_requested"),
                       "loan_amount"))
      @@ fromOpt("age", opt(sx, "age"))
      @@ fromOpt("gender", orOpt(opt(sx, "gender"), gender_from_text, "gender"))
      @@ fromOpt("marital_status", opt(sx, "marital_status"))
      @@ fromOpt("employment_type",
                 _normalize_employment_type(or2("employment_type", "employment_status")))
      @@ fromOpt("loan_tenure_years",
                 orOpt(or2("loan_tenure_years", "tenure_years"),
                       opt(sx, "loan_term_years"), "loan_tenure_years"))
      @@ fromOpt("region", opt(sx, "region"))
      @@ fromOpt("loan_purpose", or2("loan_purpose", "purpose"))
      @@ fromOpt("dependents", or2("dependents", "num_dependents"))
      @@ fromOpt("existing_emi", opt(sx, "existing_emi"))
      @@ fromOpt("salary_credit_frequency",
                 or2("salary_credit_frequency", "salary_frequency"))

\* the columns that lines 509-548 write
voice_writes(structured) ==
  LET given1(k) == Has(structured, k)
      said(k) == Truthy(structured, k)
  IN  (IF said("name") THEN "full_name" :> structured["name"] ELSE <<>>)
      @@ (IF given1("monthly_income")
          THEN [monthly_income |-> structured["monthly_income"],
                annual_income |-> times12(structured["monthly_income"])]
          ELSE <<>>)
      @@ (IF given1("credit_score")
          THEN "credit_score" :> structured["credit_score"] ELSE <<>>)
      @@ (IF given1("loan_amount")
          THEN [loan_amount_requested |-> structured["loan_amount"],
                loan_amount |-> structured["loan_amount"]]
          ELSE <<>>)
      @@ (IF given1("age") THEN "age" :> structured["age"] ELSE <<>>)
      @@ (IF said("gender") THEN "gender" :> title(structured["gender"]) ELSE <<>>)
      @@ (IF said("marital_status")
          THEN "marital_status" :> title(structured["marital_status"]) ELSE <<>>)
      @@ (IF said("employment_type")
          THEN [employment_type |-> structured["employment_type"],
                employment_status |-> structured["employment_type"]]
          ELSE <<>>)
      @@ (IF given1("loan_tenure_years")
          THEN [loan_tenure_years |-> structured["loan_tenure_years"],
                loan_term_months |-> times12(structured["loan_tenure_years"])]
          ELSE <<>>)
      @@ (IF said("region") THEN "region" :> title(structured["region"]) ELSE <<>>)
      @@ (IF said("loan_purpose")
          THEN "loan_purpose" :> title(structured["loan_purpose"]) ELSE <<>>)
      @@ (IF given1("dependents")
          THEN [dependents |-> structured["dependents"],
                num_dependents |-> structured["dependents"]]
          ELSE <<>>)
      @@ (IF given1("existing_emi")
          THEN "existing_emi" :> structured["existing_emi"] ELSE <<>>)
      @@ (IF said("salary_credit_frequency")
          THEN "salary_credit_frequency" :> title(structured["salary_credit_frequency"])
          ELSE <<>>)

\* lines 469-549: the table afterwards; the row is the one with the id
\* given, or a new one
voice_upsert(application_id, structured) ==
  LET found == getApplication(application_id)
      id == IF found # NoApplication THEN application_id ELSE Len(applications) + 1
      fresh == [id |-> id, document_verified |-> FALSE, approval_status |-> <<"p", "e", "n", "d", "i", "n", "g">>]
      row == voice_writes(structured) @@ (IF found # NoApplication THEN found ELSE fresh)
  IN  [id |-> id,
       applications |-> IF found # NoApplication
                        THEN [applications EXCEPT ![id] = row]
                        ELSE Append(applications, row)]

\* lines 556-603: values of the row for what the turn did not give; age is
\* not among them
voice_augmented(structured, application) ==
  LET absent(k) == ~Has(structured, k)
      kept(k, col) == IF absent(k) /\ Truthy(application, col)
                      THEN k :> application[col] ELSE <<>>
      stored(k, col) == IF absent(k) /\ Has(application, col)
                        THEN k :> application[col] ELSE <<>>
      name == IF ~Truthy(structured, "name") /\ Truthy(application, "full_name")
              THEN "name" :> application["full_name"] ELSE <<>>
      monthly_income ==
        IF ~absent("monthly_income") THEN <<>>
        ELSE IF Has(application, "monthly_income")
        THEN "monthly_income" :> application["monthly_income"]
        ELSE IF Has(application, "annual_income")
        THEN "monthly_income" :> (application["annual_income"] \div 12)
        ELSE <<>>
      loan_amount ==
        IF ~absent("loan_amount") THEN <<>>
        ELSE IF Has(application, "loan_amount_requested")
        THEN "loan_amount" :> application["loan_amount_requested"]
        ELSE stored("loan_amount", "loan_amount")
  IN  name @@ structured @@ monthly_income @@ loan_amount
      @@ stored("credit_score", "credit_score")
      @@ kept("gender", "gender")
      @@ kept("marital_status", "marital_status")
      @@ kept("employment_type", "employment_type")
      @@ stored("loan_tenure_years", "loan_tenure_years")
      @@ kept("region", "region")
      @@ kept("loan_purpose", "loan_purpose")
      @@ stored("dependents", "dependents")
      @@ stored("existing_emi", "existing_emi")
      @@ kept("salary_credit_frequency", "salary_credit_frequency")

\* structured.get(k) in (None, "")
noneOrEmpty(d, k) == ~Has(d, k) \/ (k \notin NumericKeys /\ d[k] = <<>>)

\* lines 606-617: the four values of the latest call, if it is recent
voice_continued(structured, last_struct) ==
  LET carried(k) == IF noneOrEmpty(structured, k) /\ ~noneOrEmpty(last_struct, k)
                    THEN k :> last_struct[k] ELSE <<>>
  IN  carried("name") @@ carried("monthly_income") @@ carried("credit_score")
      @@ carried("loan_amount") @@ structured

\* the text without what is no digit
numbers_only(cleaned) == SelectSeq(cleaned, isdigitCh)

\* lines 628-635: the amount of a short reply, -1 if none
mapped_amount(cleaned) ==
  With(_normalize_amount(cleaned),
       LAMBDA val :
         IF val # -1 THEN val
         ELSE IF numbers_only(cleaned) # <<>> THEN intOf(numbers_only(cleaned))
         ELSE -1)

\* lines 637-648: the credit score of a short reply, -1 if none
mapped_score(cleaned) ==
  With(three_digits(cleaned),
       LAMBDA cs :
         IF cs # -1 THEN cs
         ELSE IF Len(numbers_only(cleaned)) \in {2, 3} THEN intOf(numbers_only(cleaned))
         ELSE -1)

\* lines 651-656: the name of a short reply, "" if none
mapped_name(cleaned) ==
  With(With(opt(_local_extract_structured(cleaned), "name"),
            LAMBDA local :
              IF truthyOpt(local, "name") THEN local[1]
              ELSE With(strip(SelectSeq(cleaned,
                                        LAMBDA c : \/ isalphaCh(c)
                                                   \/ isspaceCh(c)
                                                   \/ c \in {"'", "-"})),
                        LAMBDA just_words :
                          IF Len(split(just_words)) \in 1..3
                          THEN capitalized(just_words) ELSE <<>>)),
       LAMBDA name_try :
         IF lower(strip(name_try)) \in banned_names THEN <<>> ELSE name_try)

\* structured with the value v for the key k, if there is a value
withValue(structured, k, present, v) ==
  IF present THEN Put(structured, k, v) ELSE structured

\* lines 622-658: a short reply is the value of the field asked last
voice_mapped(structured, transcript, prev_last_question) ==
  IF prev_last_question = "" \/ ~noneOrEmpty(structured, prev_last_question)
  THEN structured
  ELSE IF prev_last_question \in {"monthly_income", "loan_amount"}
  THEN With(mapped_amount(strip(transcript)),
            LAMBDA val : withValue(structured, prev_last_question, val > 0, val))
  ELSE IF prev_last_question = "credit_score"
  THEN With(mapped_score(strip(transcript)),
            LAMBDA cs : withValue(structured, "credit_score", cs \in 300..900, cs))
  ELSE IF prev_last_question = "name"
  THEN With(mapped_name(strip(transcript)),
            LAMBDA name_try : withValue(structured, "name", name_try # <<>>, name_try))
  ELSE structured

\* lines 663-675: the missing fields, the first of them moved to the end if
\* the latest call asked for it already
voice_missing(structured, last_struct, has_last) ==
  LET missing == _missing_fields(structured)
      prev_missing == _missing_fields(last_struct)
  IN  IF /\ has_last
         /\ Len(missing) > 1
         /\ Len(prev_missing) > 0
         /\ missing[1] = prev_missing[1]
      THEN Tail(missing) \o <<missing[1]>>
      ELSE missing

\* the structured_data of the latest call, {} if there is none
last_struct ==
  IF Len(voice_calls) > 0 THEN voice_calls[Len(voice_calls)].structured_data
  ELSE <<>>

\* lines 556-675, with the row that the upsert left
voice_resolved(structured, application, transcript, continuity) ==
  With(voice_mapped(IF continuity
                    THEN voice_continued(voice_augmented(structured, application),
                                         last_struct)
                    ELSE voice_augmented(structured, application),
                    transcript,
                    IF continuity /\ Has(last_struct, "last_question")
                    THEN last_struct["last_question"] ELSE ""),
       LAMBDA final :
         [structured |-> final,
          missing |-> voice_missing(final, last_struct, Len(voice_calls) > 0)])

\* lines 402-675: the table after the upsert, the id of the row, the
\* structured values and the missing fields of the turn
voice_turn(transcript, extracted_llm, application_id, recent) ==
  With(voice_structured(localTable[transcript], extracted_llm, lower(transcript)),
       LAMBDA structured :
         With(voice_upsert(application_id, structured),
              LAMBDA upsert :
                [applications |-> upsert.applications, id |-> upsert.id]
                @@ voice_resolved(structured, upsert.applications[upsert.id],
                                  transcript,
                                  application_id # 0 /\ Len(voice_calls) > 0 /\ recent)))

\* generate_natural_reply and lines 680-688: the provider's text, else the
\* fallback, which asks for the first missing field
voice_reply(reply_ok, missing) ==
  IF reply_ok THEN [id |-> "llm_reply", asks |-> {}]
  ELSE IF missing = <<>> THEN [id |-> "thanks_noted", asks |-> {}]
  ELSE [id |-> IF missing[1] \in {"name", "monthly_income", "credit_score",
                                   "loan_amount"}
               THEN "example" ELSE "thanks_share",
        asks |-> {missing[1]}]

\* what predict_eligibility does for the voice agent: a prediction, or an
\* exception
VoicePredictions == Predictions \cup {NoPrediction}

\* the answer of the voice agent
VoiceAgentResponse(turn, ai_reply, scored, prediction) ==
  [endpoint |-> "voice_agent", status |-> 200, ai_reply |-> ai_reply,
   structured_data |-> turn.structured, missing_fields |-> turn.missing,
   ready_for_prediction |-> turn.missing = <<>>, scored |-> scored,
   eligibility_score |-> prediction.eligibility_score,
   application_id |-> turn.id]

\* lines 695-738, for a turn and what the services did.  Of the columns of
\* voice_calls the model keeps structured_data and eligibility_score.
voice_effect(req, turn, reply_ok, prediction) ==
  LET predicts == turn.missing = <<>>
      scored == predicts /\ prediction # NoPrediction
      persist_struct ==
        (IF turn.missing # <<>> THEN "last_question" :> turn.missing[1] ELSE <<>>)
        @@ turn.structured
      voice_call ==
        (IF scored THEN "eligibility_score" :> prediction.eligibility_score
         ELSE <<>>)
        @@ [structured_data |-> persist_struct]
      evaluated ==
        [eligibility_score |-> prediction.eligibility_score,
         eligibility_status |-> IF prediction.eligibility_score >= 50
                                THEN <<"e", "l", "i", "g", "i", "b", "l", "e">> ELSE <<"i", "n", "e", "l", "i", "g", "i", "b", "l", "e">>]
  IN  /\ applications' =
           IF scored
           THEN [turn.applications EXCEPT ![turn.id] = evaluated @@ @]
           ELSE turn.applications
      /\ voice_calls' = Append(voice_calls, voice_call)
      /\ ml_calls' =
           IF predicts
           THEN Append(ml_calls, MlCall("voice_agent", turn.applications[turn.id]))
           ELSE ml_calls
      /\ request' = req
      /\ response' = VoiceAgentResponse(turn, voice_reply(reply_ok, turn.missing),
                                        scored, prediction)
      /\ UNCHANGED <<chat_sessions, emails, script, stream, otp, manager, openrouter>>

\* the turn, with the bounds of the model on what it may add
voice_concluded(req, turn, reply_ok, prediction) ==
  /\ Len(turn.applications) <= MaxApplications
  /\ Len(voice_calls) < MaxVoiceCalls
  /\ turn.missing = <<>> => Len(ml_calls) < MaxPredictions
  /\ voice_effect(req, turn, reply_ok, prediction)

\* the handler: 503 without Whisper or ffmpeg, 400 for an upload of less
\* than 1 KB, else the turn
voice_agent ==
  \/ \E status \in {503, 400}, application_id \in ApplicationIds :
       /\ request' = [endpoint |-> "voice_agent", application_id |-> application_id]
       /\ response' = HttpStatus("voice_agent", status, application_id)
       /\ UNCHANGED <<applications, chat_sessions, voice_calls, ml_calls, emails,
                      script, stream, otp, manager, openrouter>>
  \/ \E transcript \in VoiceTranscripts, extracted_llm \in VoiceExtractions,
        application_id \in ApplicationIds :
       \E recent \in (IF application_id # 0 /\ Len(voice_calls) > 0
                      THEN BOOLEAN ELSE {FALSE}) :
         \E turn \in {voice_turn(transcript, extracted_llm, application_id, recent)} :
           \E prediction \in (IF turn.missing = <<>> THEN VoicePredictions
                              ELSE {NoPrediction}),
              reply_ok \in BOOLEAN :
             voice_concluded([endpoint |-> "voice_agent",
                              application_id |-> application_id,
                              transcript |-> transcript,
                              extracted_llm |-> extracted_llm],
                             turn, reply_ok, prediction)

(***************************************************************************)
(* The scripted conversation and the disambiguator on its own              *)
(***************************************************************************)
\* the ten keys of session_fields
session_fields ==
  <<"full_name", "email", "phone", "annual_income", "loan_amount",
    "loan_term_months", "loan_purpose", "num_dependents", "employment_status",
    "credit_score">>

\* the client of the scenario sends the next message of Script, as one
\* user, with the application id that an answer gave it; it starts when
\* there is no application
scripted_message ==
  /\ script.pos < Len(Script)
  /\ \E user_id \in Users :
    \E llm \in LLMOutcomesFor(Script[script.pos + 1]) :
      /\ IF script.pos = 0 THEN applications = <<>> ELSE user_id = script.user_id
      /\ Turn(ChatRequest(Script[script.pos + 1], script.application_id, user_id,
                          llm, TRUE))
      /\ script' = [pos |-> script.pos + 1,
                    application_id |->
                      IF response'.status = 200 /\ response'.application_id # 0
                      THEN response'.application_id ELSE script.application_id,
                    user_id |-> user_id]
      /\ UNCHANGED <<stream, otp, manager, openrouter>>

\* the keys the last assistant turn may have recorded
LastQuestionKeys == {""} \cup {required_order[i] : i \in 1..Len(required_order)}

\* what _get_last_assistant_prompt may return: nothing, or a text with any
\* of the three phrases
AssistantPrompts ==
  {NoPrompt}
  \cup {[empty |-> FALSE, mentions |-> m] :
          m \in SUBSET {"annual income", "loan amount", "credit score"}}

\* lines 593-621 applied to the inputs
disambiguate ==
  /\ request.endpoint = "none"
  /\ request' = [request EXCEPT !.endpoint = "disambiguate"]
  /\ response' = [endpoint |-> "disambiguate",
                  inferred |-> inferred_from_context(request.message,
                                                     request.last_q_key,
                                                     request.assistant_prompt)]
  /\ UNCHANGED <<applications, chat_sessions, voice_calls, ml_calls, emails, script, stream, otp, manager, openrouter>>

(***************************************************************************)
(* POST /chat/message when a commit fails                                  *)
(*                                                                         *)
(* A turn commits in the order of the source: the application row of       *)
(* _collect_applicant_details (lines 1022-1024, 1038), then the chat       *)
(* session (lines 333-335).  db.commit() that fails raises; the handler's  *)
(* except (lines 384-389) answers 500 and the session is closed without    *)
(* another commit.                                                         *)
(***************************************************************************)
\* the tables as each commit of the turn leaves them, in order
chat_commits(out) ==
  (IF out.applications # applications
   THEN <<[applications |-> out.applications, chat_sessions |-> chat_sessions]>>
   ELSE <<>>)
  \o (IF out.chat_sessions # chat_sessions
      THEN <<[applications |-> out.applications,
              chat_sessions |-> out.chat_sessions]>>
      ELSE <<>>)

\* the failure is raised by a write that had gone through
committed_through(out, k) == chat_commits(out)[k]

\* the tables when the k-th commit of the turn fails: what the commits
\* before it wrote
committed_before(out, k) ==
  IF k = 1 THEN [applications |-> applications, chat_sessions |-> chat_sessions]
  ELSE chat_commits(out)[k - 1]

\* the turn of a request whose k-th commit fails
FailedTurn(req, k) ==
  \E out \in {send_message_result(req)} :
    /\ k \in 1..Len(chat_commits(out))
    /\ Len(out.applications) <= MaxApplications
    /\ Len(out.chat_sessions) <= MaxChatSessions
    /\ \E kept \in {committed_before(out, k)} :
         /\ applications' = kept.applications
         /\ chat_sessions' = kept.chat_sessions
    /\ ml_calls' = IF out.chat_sessions # chat_sessions /\ k = Len(chat_commits(out))
                   THEN out.ml_calls ELSE ml_calls
    /\ emails' = IF out.chat_sessions # chat_sessions /\ k = Len(chat_commits(out))
                 THEN out.emails ELSE emails
    /\ request' = req @@ [store_fails_at |-> k]
    /\ response' = ChatFailure.result
    /\ UNCHANGED voice_calls

\* the commits a turn can make
ChatCommits == 1..2

send_message_store_failure ==
  \E message \in ChatMessages, application_id \in ApplicationIds, user_id \in Users :
    \E llm \in LLMOutcomesFor(message), k \in ChatCommits :
      /\ FailedTurn(ChatRequest(message, application_id, user_id, llm, FALSE), k)
      /\ UNCHANGED <<script, stream, otp, manager, openrouter>>

(***************************************************************************)
(* Several callers of the voice agent, over more turns                     *)
(***************************************************************************)
MaxCallers == 2

MaxTurns == 3

\* what the callers say, and what the provider extracts from it
DialogueTranscripts == {<<"m", "y", " ", "c", "r", "e", "d", "i", "t", " ", "s", "c", "o", "r", "e", " ", "i", "s", " ", "7", "5", "0">>, <<"7", "5", "0", "0", "0">>}

DialogueExtractions ==
  {<<>>,
   [credit_score |-> 950],
   [age |-> 30, gender |-> <<"m", "a", "l", "e">>, marital_status |-> <<"s", "i", "n", "g", "l", "e">>,
    employment_type |-> <<"s", "a", "l", "a", "r", "i", "e", "d">>]}

\* the turns of voice_agent that are not rejected, for up to MaxCallers
\* applications and MaxTurns calls
voice_dialogue ==
  \E transcript \in DialogueTranscripts, extracted_llm \in DialogueExtractions,
     application_id \in 0..MaxCallers :
    \E recent \in (IF application_id # 0 /\ Len(voice_calls) > 0
                   THEN BOOLEAN ELSE {FALSE}) :
      \E turn \in {voice_turn(transcript, extracted_llm, application_id, recent)} :
        \E prediction \in (IF turn.missing = <<>> THEN VoicePredictions
                           ELSE {NoPrediction}),
           reply_ok \in BOOLEAN :
          /\ Len(turn.applications) <= MaxCallers
          /\ Len(voice_calls) < MaxTurns
          /\ turn.missing = <<>> => Len(ml_calls) < MaxPredictions
          /\ voice_effect([endpoint |-> "voice_agent",
                           application_id |-> application_id,
                           transcript |-> transcript,
                           extracted_llm |-> extracted_llm, recent |-> recent],
                          turn, reply_ok, prediction)

(***************************************************************************)
(* voice_realtime_v2.py: one websocket session of the real-time voice      *)
(* agent.  The tasks of one session run on one event loop: a task runs     *)
(* from one await to the next without interruption, and the steps below    *)
(* are those stretches.                                                    *)
(***************************************************************************)
MaxRtTasks == 3
MaxClientMessages == 2

\* the session right after the websocket is accepted.  Of structured_data
\* the model keeps whether the six fields other than existing_emi are
\* valid, existing_emi (<<>> while the key is absent), and the three flags;
\* normalized is the dict of the latest structured_update.
NoStream ==
  [data |-> [others |-> FALSE, existing_emi |-> <<>>,
             verification_requested |-> FALSE,
             eligibility_checked |-> FALSE, documents_verified |-> FALSE],
   normalized |-> [others |-> FALSE, existing_emi |-> <<>>],
   tasks |-> <<>>, llm_task |-> 0, sent |-> <<>>, received |-> 0]

\* lines 520-540 of evaluate_eligibility: the seven fields are valid; a
\* missing existing_emi counts as -1
has_all_fields(data) ==
  /\ data.others
  /\ data.existing_emi # <<>>
  /\ data.existing_emi[1] >= 0

\* what the reply of the model may report as existing_emi: nothing, the
\* mark for unknown, none, or an amount
ReportedEmi == {<<>>, <<-1>>, <<0>>, <<500>>}

\* lines 1088-1097 for existing_emi: a value other than 0 is taken, 0 only
\* fills a key that is absent
merged_emi(old, new) ==
  IF new = <<>> THEN old
  ELSE IF new[1] # 0 THEN new
  ELSE IF old = <<>> THEN new
  ELSE old

\* what predict_eligibility is handed by the real-time agent
RtMlCall == [channel |-> "realtime", application_id |-> 0, document_verified |-> FALSE]

\* the draft application of evaluate_eligibility
RtDraft(id) ==
  [id |-> id, full_name |-> <<"V", "o", "i", "c", "e", " ", "U", "s", "e", "r">>, phone |-> <<"0", "0", "0", "0", "0", "0", "0", "0", "0", "0">>,
   approval_status |-> <<"p", "e", "n", "d", "i", "n", "g">>, document_verified |-> FALSE]

\* [data, applications, ml_calls, sent] after the part of evaluate_eligibility
\* that runs before its first await
evaluate_eligibility(s, apps, calls, draft_saved, plausible, predicted) ==
  LET same == [data |-> s.data, applications |-> apps, ml_calls |-> calls, sent |-> s.sent]
  IN  IF ~has_all_fields(s.data) \/ s.data.documents_verified
      THEN same
      ELSE IF ~s.data.verification_requested
      THEN [data |-> [s.data EXCEPT !.verification_requested = TRUE],
            applications |-> IF draft_saved THEN Append(apps, RtDraft(Len(apps) + 1))
                             ELSE apps,
            ml_calls |-> calls,
            sent |-> Append(s.sent, "document_verification_required")]
      ELSE IF s.data.eligibility_checked \/ ~plausible
      THEN same
      ELSE IF predicted
      THEN [data |-> [s.data EXCEPT !.eligibility_checked = TRUE],
            applications |-> apps,
            ml_calls |-> Append(calls, RtMlCall),
            sent |-> Append(s.sent, "eligibility_result")]
      ELSE [same EXCEPT !.ml_calls = Append(calls, RtMlCall)]

\* the states of a process_llm_response task that can still run
RtRunning == {"created", "streaming", "evaluating"}

\* sender_task, a text_input message: the diagnostic prediction of a message
\* that holds TEST123, or a new process_llm_response task nobody cancels
rt_text_input ==
  /\ stream.received < MaxClientMessages
  /\ \E diagnostic \in BOOLEAN, predicted \in BOOLEAN :
       IF diagnostic
       THEN /\ ml_calls' = Append(ml_calls, RtMlCall)
            /\ stream' = [stream EXCEPT
                 !.received = @ + 1,
                 !.sent = IF predicted THEN Append(@, "eligibility_result") ELSE @]
       ELSE /\ predicted
            /\ Len(stream.tasks) < MaxRtTasks
            /\ stream' = [stream EXCEPT !.received = @ + 1,
                                          !.tasks = Append(@, "created")]
            /\ UNCHANGED ml_calls
  /\ UNCHANGED <<applications, chat_sessions, voice_calls, emails, request, response, script, otp, manager, openrouter>>

\* receiver_task, a final transcript: the task of the previous transcript is
\* cancelled when it has not finished, and a new one is created
rt_final_transcript ==
  /\ Len(stream.tasks) < MaxRtTasks
  /\ LET cancelled ==
           IF stream.llm_task # 0 /\ stream.tasks[stream.llm_task] \in RtRunning
           THEN [stream.tasks EXCEPT ![stream.llm_task] = "cancelled"]
           ELSE stream.tasks
     IN  stream' = [stream EXCEPT !.tasks = Append(cancelled, "created"),
                                    !.llm_task = Len(stream.tasks) + 1]
  /\ UNCHANGED <<applications, chat_sessions, voice_calls, ml_calls, emails, request,
                 response, script, otp, manager, openrouter>>

\* process_llm_response up to its first await: it returns at once when the
\* verification was already requested
rt_task_start ==
  /\ \E i \in 1..Len(stream.tasks) :
       /\ stream.tasks[i] = "created"
       /\ stream' = [stream EXCEPT !.tasks[i] =
                        IF stream.data.verification_requested THEN "done"
                        ELSE "streaming"]
  /\ UNCHANGED <<applications, chat_sessions, voice_calls, ml_calls, emails, request,
                 response, script, otp, manager, openrouter>>

\* process_llm_response after the stream: the JSON of the reply is merged
\* into the session data and the structured update is sent
rt_task_merge ==
  /\ \E i \in 1..Len(stream.tasks), json \in BOOLEAN, others \in BOOLEAN,
        existing_emi \in ReportedEmi :
       /\ stream.tasks[i] = "streaming"
       /\ json \/ (~others /\ existing_emi = <<>>)
       /\ stream' = [stream EXCEPT
            !.tasks[i] = IF json THEN "evaluating" ELSE "done",
            !.data.others = @ \/ others,
            !.data.existing_emi = merged_emi(@, existing_emi),
            !.normalized = IF json
                           THEN [others |-> others, existing_emi |-> existing_emi]
                           ELSE @]
  /\ UNCHANGED <<applications, chat_sessions, voice_calls, ml_calls, emails, request,
                 response, script, otp, manager, openrouter>>

\* process_llm_response, the call of evaluate_eligibility after the update
rt_task_evaluate ==
  /\ \E i \in 1..Len(stream.tasks), draft_saved \in BOOLEAN, plausible \in BOOLEAN,
        predicted \in BOOLEAN :
       /\ stream.tasks[i] = "evaluating"
       /\ \E out \in {evaluate_eligibility(stream, applications, ml_calls,
                                           draft_saved, plausible, predicted)} :
            /\ stream' = [stream EXCEPT !.tasks[i] = "done",
                                          !.data = out.data, !.sent = out.sent]
            /\ applications' = out.applications
            /\ ml_calls' = out.ml_calls
  /\ UNCHANGED <<chat_sessions, voice_calls, emails, request, response, script, otp, manager, openrouter>>

\* sender_task, a verification_completed message
rt_verification_completed ==
  /\ stream.received < MaxClientMessages
  /\ \E draft_saved \in BOOLEAN, plausible \in BOOLEAN, predicted \in BOOLEAN :
       \E out \in {evaluate_eligibility(
                     [stream EXCEPT !.data.documents_verified = TRUE],
                     applications, ml_calls, draft_saved, plausible, predicted)} :
         /\ stream' = [stream EXCEPT !.received = @ + 1,
                                       !.data = out.data, !.sent = out.sent]
         /\ applications' = out.applications
         /\ ml_calls' = out.ml_calls
  /\ UNCHANGED <<chat_sessions, voice_calls, emails, request, response, script, otp, manager, openrouter>>

(***************************************************************************)
(* _analyze_conversation on one message: the classifier of lines 544-588,  *)
(* the extractor, and the inference of lines 593-621 laid over what the    *)
(* extractor found                                                         *)
(***************************************************************************)
\* messages for the classifier and the extractor: amounts with units,
\* messages for each rule of the classifier, employment answers, phone
\* numbers, and small numbers
AnalyzeMessages ==
  {<<"I", " ", "n", "e", "e", "d", " ", "a", " ", "l", "o", "a", "n", " ", "o", "f", " ", "5", " ", "l", "a", "k", "h">>, <<"5", " ", "l", "a", "k", "h">>, <<"2", ".", "5", " ", "l", "a", "k", "h">>, <<"1", "2", " ", "l", "a", "k", "h", "s">>, <<"1", " ", "c", "r", "o", "r", "e">>,
   <<"i", "n", "c", "o", "m", "e", " ", "6", " ", "l", "a", "k", "h", ",", " ", "l", "o", "a", "n", " ", "5", " ", "l", "a", "k", "h">>,
   <<"h", "i", ",", " ", "I", " ", "n", "e", "e", "d", " ", "a", " ", "l", "o", "a", "n">>, <<"h", "e", "l", "l", "o">>, <<"m", "y", " ", "s", "a", "l", "a", "r", "y", " ", "i", "s", " ", "5", "0", "0", "0", "0">>, <<"R", "o", "h", "a", "n", " ", "G", "u", "p", "t", "a">>,
   <<"u", "p", "l", "o", "a", "d", " ", "a", " ", "l", "o", "a", "n", " ", "d", "o", "c", "u", "m", "e", "n", "t">>, <<"a", "m", " ", "I", " ", "e", "l", "i", "g", "i", "b", "l", "e">>, <<"v", "e", "r", "i", "f", "y", " ", "o", "t", "p">>, <<"w", "h", "a", "t", " ", "i", "s", " ", "e", "m", "i">>,
   <<"p", "l", "e", "a", "s", "e", " ", "c", "h", "e", "c", "k", " ", "m", "y", " ", "f", "i", "l", "e">>,
   <<"s", "a", "l", "a", "r", "i", "e", "d">>, <<"S", "a", "l", "a", "r", "i", "e", "d">>, <<"s", "e", "l", "f", "-", "e", "m", "p", "l", "o", "y", "e", "d">>, <<"S", "E", "L", "F", "-", "E", "M", "P", "L", "O", "Y", "E", "D">>, <<"b", "u", "s", "i", "n", "e", "s", "s">>,
   <<"B", "u", "s", "i", "n", "e", "s", "s">>, <<"u", "n", "e", "m", "p", "l", "o", "y", "e", "d">>, <<"I", " ", "a", "m", " ", "u", "n", "e", "m", "p", "l", "o", "y", "e", "d", " ", "n", "o", "w">>,
   <<"9", "8", "7", "6", "5", "4", "3", "2", "1", "0">>, <<" ", "9", "8", "7", "6", "5", "4", "3", "2", "1", "0", " ">>, <<"1", "2", "3", "4", "5", "6", "7", "8", "9", "0">>,
   <<"0">>, <<"2">>, <<"1", "2">>, <<"2", "0">>, <<"2", "1">>, <<"2", " ", "k", "i", "d", "s">>}

\* [base, extracted]: lines 544-588 without an application, and
\* _extract_data_from_message, computed once per message
analyzeTable ==
  [m \in AnalyzeMessages |->
     [base |-> intentOf(m, NoApplication),
      extracted |-> _extract_data_from_message(m)]]

\* the function for a client without token and without application: lines
\* 591-621 lay the inferred value over the extracted ones, lines 657-660
\* make a message that carries data and matched no rule a providing_info
analyze_message ==
  /\ request.endpoint = "none"
  /\ "message" \in DOMAIN request
  /\ request' = [request EXCEPT !.endpoint = "analyze"]
  /\ \E found \in {analyzeTable[request.message]} :
       \E collected_data \in
            {inferred_from_context(request.message, request.last_q_key,
                                   request.assistant_prompt) @@ found.extracted} :
         response' = [endpoint |-> "analyze",
                      intent |-> contextOf(found.base, collected_data,
                                           NoApplication).intent,
                      extracted |-> found.extracted,
                      collected_data |-> collected_data]
  /\ UNCHANGED <<applications, chat_sessions, voice_calls, ml_calls, emails, script, stream, otp, manager, openrouter>>

(***************************************************************************)
(* otp_routes.py and the one-time codes of EmailService                    *)
(***************************************************************************)
\* ttl_seconds of store_otp
OtpTtl == 600

\* the clock moves in steps of TickSeconds, up to MaxClock
TickSeconds == 300

MaxClock == 1200

\* the store of a new EmailService, and the clock
NoOtp == [store |-> <<>>, now |-> 0]

OtpEmails == {<<"r", "o", "h", "a", "n", "@", "e", "x", "a", "m", "p", "l", "e", ".", "c", "o", "m">>, <<"R", "o", "h", "a", "n", "@", "e", "x", "a", "m", "p", "l", "e", ".", "c", "o", "m">>, <<"a", "s", "h", "a", "@", "e", "x", "a", "m", "p", "l", "e", ".", "c", "o", "m">>}

\* what generate_otp may draw
GeneratedCodes == {<<"1", "2", "3", "4", "5", "6">>, <<"6", "5", "4", "3", "2", "1">>}

\* what a client may submit
SubmittedCodes == GeneratedCodes \cup {<<"1", "2", "3", "4", "5">>, <<"a", "b", "c", "d", "e", "f">>}

\* store_otp
store_otp(store, email, code, now) ==
  Put(store, lower(email), [code |-> code, expires |-> now + OtpTtl])

\* the store without the record of an email
otp_deleted(store, email) ==
  [e \in (DOMAIN store) \ {lower(email)} |-> store[e]]

\* verify_stored_otp: [valid, store]
verify_stored_otp(store, email, code, now) ==
  IF ~Has(store, lower(email))
  THEN [valid |-> FALSE, store |-> store]
  ELSE IF now > store[lower(email)].expires
  THEN [valid |-> FALSE, store |-> otp_deleted(store, email)]
  ELSE IF store[lower(email)].code = code
  THEN [valid |-> TRUE, store |-> otp_deleted(store, email)]
  ELSE [valid |-> FALSE, store |-> store]

\* EmailService.verify_otp: any code of six digits
verify_otp(otp_code) == Len(otp_code) = 6 /\ isdigit(otp_code)

\* POST /otp/send
otp_send ==
  /\ \E email \in OtpEmails, code \in GeneratedCodes :
       /\ otp' = [otp EXCEPT !.store = store_otp(otp.store, email, code, otp.now)]
       /\ request' = [endpoint |-> "send_otp", email |-> email]
       /\ response' = [endpoint |-> "send_otp", status |-> 200]
  /\ UNCHANGED <<applications, chat_sessions, voice_calls, ml_calls, emails, script,
                 stream, manager, openrouter>>

\* POST /otp/verify: the stored code first, then verify_otp
otp_verify ==
  /\ \E email \in OtpEmails, otp_code \in SubmittedCodes :
       \E stored \in {verify_stored_otp(otp.store, email, otp_code, otp.now)} :
         /\ otp' = [otp EXCEPT !.store = stored.store]
         /\ request' = [endpoint |-> "verify_otp", email |-> email,
                        otp_code |-> otp_code]
         /\ response' = [endpoint |-> "verify_otp",
                         status |-> IF stored.valid \/ verify_otp(otp_code)
                                    THEN 200 ELSE 400]
  /\ UNCHANGED <<applications, chat_sessions, voice_calls, ml_calls, emails, script,
                 stream, manager, openrouter>>

\* time passes
otp_tick ==
  /\ otp.now < MaxClock
  /\ otp' = [otp EXCEPT !.now = @ + TickSeconds]
  /\ UNCHANGED <<applications, chat_sessions, voice_calls, ml_calls, emails, request,
                 response, script, stream, manager, openrouter>>

(***************************************************************************)
(* notification_routes.py: the ConnectionManager of the manager            *)
(* notifications.  A websocket is a number; broadcast runs on the event    *)
(* loop next to the handlers of the websockets, which run between its      *)
(* awaits.                                                                 *)
(***************************************************************************)
MaxConnections == 3

\* the manager of the module, with no broadcast running.  Of a broadcast
\* the model keeps where the iterator of the for loop stands, the list
\* disconnected, and what was sent; stayed are the websockets that were in
\* the list when the broadcast began and have neither left it nor failed.
NoManager ==
  [active_connections |-> <<>>, accepted |-> 0,
   pc |-> "idle", index |-> 0, disconnected |-> <<>>, delivered |-> <<>>,
   stayed |-> {}]

\* list.remove: the list without the first occurrence of c
list_remove(list, c) ==
  LET hits == {i \in 1..Len(list) : list[i] = c}
  IN  IF hits = {} THEN list
      ELSE SubSeq(list, 1, Least(hits) - 1) \o SubSeq(list, Least(hits) + 1, Len(list))

RECURSIVE disconnect_all(_, _)
\* disconnect for each websocket of a list
disconnect_all(list, conns) ==
  IF Len(conns) = 0 THEN list
  ELSE disconnect_all(list_remove(list, conns[1]), Tail(conns))

\* ConnectionManager.connect for a new websocket
ws_connect ==
  /\ manager.accepted < MaxConnections
  /\ manager' = [manager EXCEPT
       !.accepted = @ + 1,
       !.active_connections = Append(@, manager.accepted + 1)]
  /\ UNCHANGED <<applications, chat_sessions, voice_calls, ml_calls, emails, request,
                 response, script, stream, otp, openrouter>>

\* manager_notifications_ws when its websocket closes: disconnect
ws_disconnect ==
  /\ \E c \in 1..manager.accepted :
       /\ \E i \in 1..Len(manager.active_connections) :
            manager.active_connections[i] = c
       /\ manager' = [manager EXCEPT
            !.active_connections = list_remove(@, c),
            !.stayed = @ \ {c}]
  /\ UNCHANGED <<applications, chat_sessions, voice_calls, ml_calls, emails, request,
                 response, script, stream, otp, openrouter>>

\* broadcast up to the for loop
broadcast_begin ==
  /\ manager.pc \in {"idle", "done"}
  /\ manager' = [manager EXCEPT
       !.pc = IF Len(manager.active_connections) = 0 THEN "done" ELSE "sending",
       !.index = 0,
       !.disconnected = <<>>,
       !.delivered = <<>>,
       !.stayed = {manager.active_connections[i] :
                     i \in 1..Len(manager.active_connections)}]
  /\ UNCHANGED <<applications, chat_sessions, voice_calls, ml_calls, emails, request,
                 response, script, stream, otp, openrouter>>

\* one round of the for loop: the iterator yields the element at its index
\* of the list as it is now, and send_json succeeds or raises
broadcast_send ==
  /\ manager.pc = "sending"
  /\ manager.index < Len(manager.active_connections)
  /\ \E sent \in BOOLEAN :
       LET connection == manager.active_connections[manager.index + 1]
       IN  manager' = [manager EXCEPT
             !.index = @ + 1,
             !.delivered = IF sent THEN Append(@, connection) ELSE @,
             !.disconnected = IF sent THEN @ ELSE Append(@, connection),
             !.stayed = IF sent THEN @ ELSE @ \ {connection}]
  /\ UNCHANGED <<applications, chat_sessions, voice_calls, ml_calls, emails, request,
                 response, script, stream, otp, openrouter>>

\* the iterator is exhausted: the websockets that failed are removed
broadcast_end ==
  /\ manager.pc = "sending"
  /\ manager.index >= Len(manager.active_connections)
  /\ manager' = [manager EXCEPT
       !.pc = "done",
       !.active_connections = disconnect_all(@, manager.disconnected)]
  /\ UNCHANGED <<applications, chat_sessions, voice_calls, ml_calls, emails, request,
                 response, script, stream, otp, openrouter>>

(***************************************************************************)
(* openrouter_service.py: OpenRouterService.generate, one step per         *)
(* requests.post of its loop                                               *)
(***************************************************************************)
\* no call has been made
NoCall ==
  [pc |-> "idle", attempts |-> 0, allow_system |-> TRUE, responses |-> <<>>,
   raised |-> "none"]

\* what requests.post may give: a text, an empty content, a body without
\* choices, the refusal of the system message, another 400, a 429 without
\* or with a numeric Retry-After, a 429 whose Retry-After is a date, a 503,
\* and no response at all
HttpResponses ==
  {"200_text", "200_empty", "200_no_choices", "400_developer_instruction",
   "400_other", "429", "429_retry_after_date", "503", "request_exception"}

\* lines 82-95: generate up to its loop
or_generate ==
  /\ openrouter.pc \in {"idle", "returned", "raised"}
  /\ \E api_key \in BOOLEAN :
       openrouter' =
         IF api_key THEN [NoCall EXCEPT !.pc = "posting"]
         ELSE [NoCall EXCEPT !.pc = "raised", !.raised = "RuntimeError"]
  /\ UNCHANGED <<applications, chat_sessions, voice_calls, ml_calls, emails, request,
                 response, script, stream, otp, manager>>

\* the call after one more counted attempt: lines 96 and 138
or_counted(call) ==
  IF call.attempts + 1 < 3
  THEN [call EXCEPT !.attempts = @ + 1]
  ELSE [call EXCEPT !.attempts = @ + 1, !.pc = "raised", !.raised = "RuntimeError"]

\* lines 97-135 and 139-141 for one response
or_handled(call, resp) ==
  CASE resp \in {"200_text", "200_empty"} -> [call EXCEPT !.pc = "returned"]
    [] resp = "200_no_choices" ->
         [call EXCEPT !.pc = "raised", !.raised = "IndexError"]
    [] resp = "400_developer_instruction" /\ call.allow_system ->
         [call EXCEPT !.allow_system = FALSE]
    [] resp = "429" -> or_counted(call)
    [] resp = "429_retry_after_date" ->
         [call EXCEPT !.pc = "raised", !.raised = "ValueError"]
    [] resp = "503" -> or_counted(call)
    [] OTHER -> [call EXCEPT !.pc = "raised", !.raised = "RuntimeError"]

\* one round of the while loop
or_post ==
  /\ openrouter.pc = "posting"
  /\ \E resp \in HttpResponses :
       openrouter' = or_handled([openrouter EXCEPT !.responses = Append(@, resp)], resp)
  /\ UNCHANGED <<applications, chat_sessions, voice_calls, ml_calls, emails, request,
                 response, script, stream, otp, manager>>

(***************************************************************************)
(* Specifications                                                          *)
(***************************************************************************)
NoExchange == [endpoint |-> "none"]

\* the scripted client before its first message
NoScript == [pos |-> 0, application_id |-> 0, user_id |-> 0]

\* the empty database
Init ==
  /\ applications = <<>>
  /\ chat_sessions = <<>>
  /\ voice_calls = <<>>
  /\ ml_calls = <<>>
  /\ emails = <<>>
  /\ request = NoExchange
  /\ response = NoExchange
  /\ script = NoScript
  /\ stream = NoStream
  /\ otp = NoOtp
  /\ manager = NoManager
  /\ openrouter = NoCall

\* the chat endpoint and the form that creates applications
NextChat == create_loan_application \/ send_message

SpecChat == Init /\ [][NextChat]_vars

\* the chat endpoint over a store whose commits can fail
NextChatStore == create_loan_application \/ send_message \/ send_message_store_failure

SpecChatStore == Init /\ [][NextChatStore]_vars

\* the form, the documents and the prediction endpoint
NextDocs ==
  \/ create_loan_application
  \/ verify_document
  \/ verify_application_document
  \/ update_application
  \/ predict_for_application

SpecDocs == Init /\ [][NextDocs]_vars

\* the form, the voice agent and the prediction endpoint
NextVoice == create_loan_application \/ voice_agent \/ predict_for_application

SpecVoice == Init /\ [][NextVoice]_vars

\* callers of the voice agent on their own
NextVoiceDialogue == voice_dialogue

SpecVoiceDialogue == Init /\ [][NextVoiceDialogue]_vars

\* the scripted conversation, while the form is used and applications are
\* edited
NextScenario == scripted_message \/ create_loan_application \/ update_application

SpecScenario == Init /\ [][NextScenario]_vars

\* the disambiguator on its own: a reply, the key the last assistant turn
\* recorded, and the phrases its text contains.  An assistant turn that
\* records a key names it in its text (lines 822-846).
InitDisamb ==
  /\ applications = <<>>
  /\ chat_sessions = <<>>
  /\ voice_calls = <<>>
  /\ ml_calls = <<>>
  /\ emails = <<>>
  /\ script = NoScript
  /\ stream = NoStream
  /\ otp = NoOtp
  /\ manager = NoManager
  /\ openrouter = NoCall
  /\ response = NoExchange
  /\ \E message \in BareReplies, last_q_key \in LastQuestionKeys,
        assistant_prompt \in AssistantPrompts :
       /\ last_q_key # "" =>
            /\ ~assistant_prompt.empty
            /\ phraseOf(last_q_key) \subseteq assistant_prompt.mentions
       /\ request = [endpoint |-> "none", message |-> message,
                     last_q_key |-> last_q_key,
                     assistant_prompt |-> assistant_prompt]

NextDisamb == disambiguate

SpecDisamb == InitDisamb /\ [][NextDisamb]_vars

\* one real-time voice session
NextRealtime ==
  \/ rt_text_input
  \/ rt_final_transcript
  \/ rt_task_start
  \/ rt_task_merge
  \/ rt_task_evaluate
  \/ rt_verification_completed

SpecRealtime == Init /\ [][NextRealtime]_vars

\* the analysis of one message: the message, the key the last assistant
\* turn recorded, and the text of that turn, which names the slot it asked
InitAnalyze ==
  /\ applications = <<>>
  /\ chat_sessions = <<>>
  /\ voice_calls = <<>>
  /\ ml_calls = <<>>
  /\ emails = <<>>
  /\ script = NoScript
  /\ stream = NoStream
  /\ otp = NoOtp
  /\ manager = NoManager
  /\ openrouter = NoCall
  /\ response = NoExchange
  /\ \E message \in AnalyzeMessages, last_q_key \in LastQuestionKeys :
       request = [endpoint |-> "none", message |-> message,
                  last_q_key |-> last_q_key,
                  assistant_prompt |->
                    IF last_q_key = "" THEN NoPrompt
                    ELSE [empty |-> FALSE, mentions |-> phraseOf(last_q_key)]]

NextAnalyze == analyze_message

SpecAnalyze == InitAnalyze /\ [][NextAnalyze]_vars

\* the two endpoints of the one-time codes, and the clock
NextOtp == otp_send \/ otp_verify \/ otp_tick

SpecOtp == Init /\ [][NextOtp]_vars

\* the manager notifications: websockets come and go while broadcasts run
NextNotifications ==
  \/ ws_connect
  \/ ws_disconnect
  \/ broadcast_begin
  \/ broadcast_send
  \/ broadcast_end

SpecNotifications == Init /\ [][NextNotifications]_vars

\* calls of OpenRouterService.generate, one after the other
NextOpenRouter == or_generate \/ or_post

SpecOpenRouter == Init /\ [][NextOpenRouter]_vars

(***************************************************************************)
(* The claims                                                              *)
(***************************************************************************)
\* the columns of an application that hold slot values
SlotColumns ==
  {"full_name", "email", "phone", "annual_income", "monthly_income",
   "loan_amount", "loan_amount_requested", "loan_term_months",
   "loan_tenure_years", "credit_score", "employment_status", "num_dependents",
   "loan_purpose"}

\* the request is the explicit "update" command of the chat
IsUpdate(r) ==
  r.endpoint = "send_message" /\ lower(strip(r.message)) = <<"u", "p", "d", "a", "t", "e">>

\* the answer is a request to upload documents
IsUploadPrompt(r) ==
  /\ r.endpoint = "send_message"
  /\ r.status = 200
  /\ r.action = "show_upload_buttons" \/ r.context_action = "request_document"

\* C1: no turn of the chat or of the voice agent leaves a slot that held a
\* valid value holding null, the empty text or zero: a turn that produces
\* such a value for the key does not store it
C1_NonClobber ==
  [][request'.endpoint \in {"send_message", "voice_agent"}
       => \A i \in 1..Len(applications) :
            \A k \in SlotColumns :
              Truthy(applications[i], k) => Truthy(applications'[i], k)]_vars

\* C2: a second POST /predict-for-application for the same application,
\* directly after a first one that succeeded, calls the prediction service
\* no further time, and exactly one result notification has been sent for
\* the application
C2_IdempotentEvaluation ==
  [][(/\ request.endpoint = "predict_for_application"
      /\ response.status = 200
      /\ request'.endpoint = "predict_for_application"
      /\ request'.application_id = request.application_id
      /\ response'.status = 200)
       => /\ ml_calls' = ml_calls
          /\ Cardinality({i \in 1..Len(emails') :
                            emails'[i].application_id = request.application_id}) = 1]_vars

\* C3: the chat and the voice agent call the prediction service only for
\* an application whose documents are verified
C3_NoPredictionBeforeDocuments ==
  \A i \in 1..Len(ml_calls) :
    ml_calls[i].channel \in {"chat", "voice_agent"} => ml_calls[i].document_verified

\* C4: when the scripted client has sent its ten messages, the answer to
\* the last is the request to upload documents, with the ten schema keys
\* collected and no field missing
C4_ScenarioReachesDocuments ==
  (script.pos = Len(Script) /\ request.endpoint = "send_message" /\ request.scripted)
    => /\ IsUploadPrompt(response)
       /\ {session_fields[i] : i \in 1..Len(session_fields)}
            \subseteq DOMAIN response.collected_values
       /\ response.missing_fields = <<>>

\* C5: the chat answers with a request to upload documents only when every
\* required field has a valid value among the collected values of the
\* answer or in the application the answer names
C5_UploadPromptOnlyWhenComplete ==
  IsUploadPrompt(response)
    => \A i \in 1..Len(required_fields) :
         \/ Truthy(response.collected_values, required_fields[i])
         \/ /\ response.application_id \in 1..Len(applications)
            /\ Truthy(applications[response.application_id], required_fields[i])

\* C6: a reply of the chat asks for at most one slot field, and a reply
\* that requests the documents asks for none
C6_AtMostOneQuestion ==
  (response.endpoint = "send_message" /\ response.status = 200)
    => /\ Cardinality(response.message.asks) <= 1
       /\ IsUploadPrompt(response) => response.message.asks = {}

C8_VerifiedIffBothGroups ==
  \A i \in 1..Len(applications) :
    applications[i]["document_verified"]
      <=> /\ has_identity(uploaded_documents(applications[i]))
          /\ has_financial(uploaded_documents(applications[i]))

\* C9: the message that follows an accepted "update" for an existing
\* application, sent for the same application and carrying a slot value,
\* is handled as a slot answer
C9_UpdateReopensCollection ==
  [][(/\ IsUpdate(request)
      /\ request.application_id \in 1..Len(applications)
      /\ response.status = 200
      /\ request'.endpoint = "send_message"
      /\ request'.application_id = request.application_id
      /\ DOMAIN extracted_data(request'.message) # {})
       => response'.intent = "providing_info"]_vars

\* C10: a chat or voice turn that is not the "update" command and does not
\* follow it leaves the slot columns of every evaluated application as
\* they were
C10_NoCollectionAfterEvaluation ==
  [][(/\ request'.endpoint \in {"send_message", "voice_agent"}
      /\ ~IsUpdate(request)
      /\ ~IsUpdate(request'))
       => \A i \in 1..Len(applications) :
            Has(applications[i], "eligibility_score")
              => Only(applications'[i], SlotColumns)
                   = Only(applications[i], SlotColumns)]_vars

\* the texts of _fallback_single_question
FallbackReplies == {"fallback_question", "fallback_how_can_i_help"}

\* C11: when the text-generation provider is unavailable, fails or answers
\* with an error, the reply of the chat is the fallback that asks for the
\* next missing field, never a text that reports the provider's failure
C11_ProviderFailureNeverSurfaced ==
  (/\ response.endpoint = "send_message"
   /\ response.status = 200
   /\ response.consulted
   /\ ~request.llm.health \/ request.llm.outcome # "ok")
    => response.message.id \in FallbackReplies

\* C12: POST /chat/message answers every message, for every stored
\* application, with a reply and never with HTTP 500 (the store does not
\* fail in these behaviours)
C12_ChatAlwaysReplies ==
  response.endpoint = "send_message"
    => /\ response.status = 200
       /\ response.message.id # "none"

ColumnOf(k) == IF k = "name" THEN "full_name" ELSE k

\* C14: the values a turn of the voice agent reports for an application
\* come from that turn or from the record of that application, also when
\* the call before it belonged to the conversation of another application
C14_ConversationsAreIsolated ==
  [][(/\ response.endpoint = "voice_agent"
      /\ response.status = 200
      /\ request'.endpoint = "voice_agent"
      /\ response'.status = 200
      /\ response'.application_id # response.application_id)
       => \A k \in {"name", "monthly_income", "credit_score", "loan_amount"} :
            Has(response'.structured_data, k)
              => \/ Has(voice_structured(localTable[request'.transcript],
                                         request'.extracted_llm,
                                         lower(request'.transcript)), k)
                 \/ Has(applications'[response'.application_id], ColumnOf(k))]_vars

\* how many elements of a sequence satisfy a test
CountOf(seq, Test(_)) == Cardinality({i \in 1..Len(seq) : Test(seq[i])})

\* C15: within one real-time voice session, whatever the interleaving of the
\* process_llm_response tasks and the client messages, at most one draft
\* application is created, at most one document_verification_required
\* message is sent, and the prediction service is called at most once
C15_OnceOnlySideEffects ==
  /\ Len(applications) <= 1
  /\ CountOf(stream.sent, LAMBDA m : m = "document_verification_required") <= 1
  /\ CountOf(ml_calls, LAMBDA c : c.channel = "realtime") <= 1

\* a chat message that is a bare number of five to eight digits
IsBareAmount(r) ==
  /\ r.endpoint = "send_message"
  /\ plainNumber(strip(r.message))

\* C16: a chat message that is a bare number of five to eight digits is
\* stored in whichever of annual_income and loan_amount the application has
\* not yet filled, and the field that is filled keeps its value
C16_BareNumberFillsTheOpenField ==
  [][\A a \in 1..Len(applications) :
       (/\ IsBareAmount(request')
        /\ request'.application_id = a
        /\ response'.status = 200)
         => LET n == intOf(strip(request'.message))
                before == applications[a]
                after == applications'[a]
            IN  /\ (before["annual_income"] # 0 /\ before["loan_amount"] = 0)
                     => /\ after["loan_amount"] = n
                        /\ after["annual_income"] = before["annual_income"]
                /\ (before["annual_income"] = 0 /\ before["loan_amount"] # 0)
                     => /\ after["annual_income"] = n
                        /\ after["loan_amount"] = before["loan_amount"]
                /\ (before["annual_income"] = 0 /\ before["loan_amount"] = 0)
                     => {after["annual_income"], after["loan_amount"]} = {0, n}]_vars

\* C17: when the preceding turn of a voice conversation asked for field f,
\* f is still missing in this turn and another field is missing too, this
\* turn asks for a field other than f
C17_NoQuestionTwiceInARow ==
  [][(/\ response.endpoint = "voice_agent"
      /\ response.status = 200
      /\ response.missing_fields # <<>>
      /\ request'.endpoint = "voice_agent"
      /\ response'.status = 200
      /\ response'.application_id = response.application_id
      /\ Len(response'.missing_fields) >= 2
      /\ \E i \in 1..Len(response'.missing_fields) :
           response'.missing_fields[i] = response.missing_fields[1])
       => response'.missing_fields[1] # response.missing_fields[1]]_vars

\* a credit score as a slot may hold it: none, or one of 300..900
ValidScoreOrNone(d) ==
  Has(d, "credit_score") => d["credit_score"] \in {0} \cup (300..900)

\* C18: no application and no stored voice call holds a credit score
\* below 300 or above 900
C18_OutOfRangeScoreNeverStored ==
  /\ \A i \in 1..Len(applications) : ValidScoreOrNone(applications[i])
  /\ \A i \in 1..Len(voice_calls) : ValidScoreOrNone(voice_calls[i].structured_data)

\* C19: when the key recorded by the last assistant turn is credit_score and
\* the user answers 750, the disambiguator infers the credit score 750
C19_RecordedScoreKeyTakes750 ==
  (/\ response.endpoint = "disambiguate"
   /\ request.last_q_key = "credit_score"
   /\ request.message = <<"7", "5", "0">>)
    => /\ Has(response.inferred, "credit_score")
       /\ response.inferred["credit_score"] = 750

\* the disambiguator has answered 750 under the recorded key credit_score
C19_Witness ==
  /\ response.endpoint = "disambiguate"
  /\ request.last_q_key = "credit_score"
  /\ request.message = <<"7", "5", "0">>
  /\ DOMAIN response.inferred = {"credit_score"}

\* C20: for the message 720, with no recorded key and a last assistant
\* message that contains "credit score", the inference from the text of the
\* prompt gives the credit score 720
C20_TextSniffTakes720 ==
  (/\ response.endpoint = "disambiguate"
   /\ request.last_q_key = ""
   /\ ~request.assistant_prompt.empty
   /\ "credit score" \in request.assistant_prompt.mentions
   /\ request.message = <<"7", "2", "0">>)
    => response.inferred = "credit_score" :> 720

\* the disambiguator has answered 720 from a prompt that names the credit
\* score next to an amount, with no key recorded
C20_Witness ==
  /\ response.endpoint = "disambiguate"
  /\ request.last_q_key = ""
  /\ request.message = <<"7", "2", "0">>
  /\ {"credit score", "annual income"} \subseteq request.assistant_prompt.mentions
  /\ Has(response.inferred, "credit_score")

\* the positions of a lowered message where a number followed by "lakh"
\* begins
LakhStarts(s) ==
  {i \in 1..Len(s) :
     /\ unitAt(s, i)
     /\ StartsAt(s, Ws0(s, unitNumberEnd(s, i) + 1), <<"l", "a", "k", "h">>)
     /\ i > 1 => ~isdigitCh(s[i - 1]) /\ s[i - 1] # "."}

\* the amounts of a message among what the extractor found
AmountsOf(d) ==
  {d[k] : k \in DOMAIN d \cap {"annual_income", "loan_amount"}}

\* C21: for every "<k> lakh" that a message contains the extractor yields
\* an amount of k times 100000, and "I need a loan of 5 lakh" yields the
\* loan amount 500000
C21_LakhAmounts ==
  response.endpoint = "analyze"
    => /\ \A i \in LakhStarts(lower(request.message)) :
            unitValue(lower(request.message), i) \in AmountsOf(response.extracted)
       /\ request.message = <<"I", " ", "n", "e", "e", "d", " ", "a", " ", "l", "o", "a", "n", " ", "o", "f", " ", "5", " ", "l", "a", "k", "h">>
            => /\ Has(response.extracted, "loan_amount")
               /\ response.extracted["loan_amount"] = 500000

\* the intents of the seven rules of the classifier, in their order
RuleIntents ==
  <<"greeting", "providing_info", "providing_info", "loan_inquiry",
    "document_upload", "eligibility_check", "verification">>

\* the keywords of a rule; the third rule, the bare name, has none
RuleKeywords ==
  <<<<<<"h", "e", "l", "l", "o">>, <<"h", "i">>, <<"h", "e", "y">>, <<"s", "t", "a", "r", "t">>, <<"b", "e", "g", "i", "n">>>>,
    <<<<"n", "a", "m", "e">>, <<"a", "g", "e">>, <<"i", "n", "c", "o", "m", "e">>, <<"s", "a", "l", "a", "r", "y">>>>,
    <<>>,
    <<<<"l", "o", "a", "n">>, <<"a", "m", "o", "u", "n", "t">>, <<"b", "o", "r", "r", "o", "w">>, <<"n", "e", "e", "d", " ", "m", "o", "n", "e", "y">>>>,
    <<<<"d", "o", "c", "u", "m", "e", "n", "t">>, <<"u", "p", "l", "o", "a", "d">>, <<"f", "i", "l", "e">>, <<"b", "a", "n", "k", " ", "s", "t", "a", "t", "e", "m", "e", "n", "t">>, <<"i", "d">>>>,
    <<<<"e", "l", "i", "g", "i", "b", "l", "e">>, <<"c", "h", "e", "c", "k">>, <<"q", "u", "a", "l", "i", "f", "y">>, <<"e", "l", "i", "g", "i", "b", "i", "l", "i", "t", "y">>>>,
    <<<<"v", "e", "r", "i", "f", "y">>, <<"o", "t", "p">>, <<"c", "o", "d", "e">>, <<"e", "m", "a", "i", "l">>>>>>

\* the rules a message matches
RulesMatched(message) ==
  {i \in 1..Len(RuleIntents) :
     IF i = 3 THEN nameOnly(strip(message))
     ELSE containsAny(lower(message), RuleKeywords[i])}

\* C22: the classifier answers with the intent of the first rule, in the
\* order greeting, personal information, bare name, loan, document,
\* eligibility, verification, that the message matches, and with
\* general_inquiry when it matches none; "I need a loan of 5 lakh" is a
\* loan_inquiry
C22_FirstMatchingIntent ==
  response.endpoint = "analyze"
    => /\ response.intent =
            IF RulesMatched(request.message) = {} THEN "general_inquiry"
            ELSE RuleIntents[Least(RulesMatched(request.message))]
       /\ request.message = <<"I", " ", "n", "e", "e", "d", " ", "a", " ", "l", "o", "a", "n", " ", "o", "f", " ", "5", " ", "l", "a", "k", "h">>
            => response.intent = "loan_inquiry"

\* C22, amended: as above, but a message that matches no rule and carries
\* a slot value is a providing_info
C22_FirstMatchOrPromoted ==
  response.endpoint = "analyze"
    => /\ response.intent =
            IF RulesMatched(request.message) # {}
            THEN RuleIntents[Least(RulesMatched(request.message))]
            ELSE IF DOMAIN response.collected_data # {} THEN "providing_info"
            ELSE "general_inquiry"
       /\ request.message = <<"I", " ", "n", "e", "e", "d", " ", "a", " ", "l", "o", "a", "n", " ", "o", "f", " ", "5", " ", "l", "a", "k", "h">>
            => response.intent = "loan_inquiry"

\* a message that matches no rule and carries a slot value has been
\* classified
C22_Witness ==
  /\ response.endpoint = "analyze"
  /\ RulesMatched(request.message) = {}
  /\ DOMAIN response.collected_data # {}
  /\ response.intent = "providing_info"

\* C23: the messages "salaried", "self-employed" and "business", in any
\* letter case, yield that employment status, and a message that contains
\* "unemployed" yields "unemployed"
C23_EmploymentStatus ==
  response.endpoint = "analyze"
    => /\ lower(strip(request.message)) \in {<<"s", "a", "l", "a", "r", "i", "e", "d">>, <<"s", "e", "l", "f", "-", "e", "m", "p", "l", "o", "y", "e", "d">>, <<"b", "u", "s", "i", "n", "e", "s", "s">>}
            => /\ Has(response.extracted, "employment_status")
               /\ response.extracted["employment_status"] = lower(strip(request.message))
       /\ Contains(lower(request.message), <<"u", "n", "e", "m", "p", "l", "o", "y", "e", "d">>)
            => /\ Has(response.extracted, "employment_status")
               /\ response.extracted["employment_status"] = <<"u", "n", "e", "m", "p", "l", "o", "y", "e", "d">>

\* the key the assistant records when it asks for the number of dependents
DependentsKey == "num_dependents"

\* C24: a message that is only an integer of 0..20 sets num_dependents
\* only when the previous assistant question asked for the number of
\* dependents
C24_BareCountOnlyAfterDependentsQuestion ==
  (/\ response.endpoint = "analyze"
   /\ isdigit(strip(request.message))
   /\ intOf(strip(request.message)) \in 0..20
   /\ request.last_q_key # DependentsKey)
    => ~Has(response.collected_data, "num_dependents")

\* a message that is a number of ten digits and nothing else
IsPhoneMessage(message) ==
  isdigit(strip(message)) /\ Len(strip(message)) = 10

\* C25: a message that is exactly a number of ten digits yields the key
\* phone with that number
C25_TenDigitsArePhone ==
  (response.endpoint = "analyze" /\ IsPhoneMessage(request.message))
    => /\ Has(response.extracted, "phone")
       /\ response.extracted["phone"] = strip(request.message)

\* a number of ten digits, sent with blanks around it, has been extracted
C25_Witness ==
  /\ response.endpoint = "analyze"
  /\ IsPhoneMessage(request.message)
  /\ request.message # strip(request.message)
  /\ Has(response.extracted, "phone")

\* C26: in a real-time session whose fields are complete and whose
\* verification was requested, the verification_completed message makes the
\* session call the prediction and send an eligibility_result
C26_VerificationLeadsToPrediction ==
  [][(/\ has_all_fields(stream.data)
      /\ stream.data.verification_requested
      /\ ~stream.data.documents_verified
      /\ stream'.data.documents_verified)
       => /\ Len(ml_calls') = Len(ml_calls) + 1
          /\ Len(stream'.sent) = Len(stream.sent) + 1
          /\ stream'.sent[Len(stream'.sent)] = "eligibility_result"]_vars

\* C27: in a real-time session an existing EMI of 0 that the user reports
\* replaces the mark for unknown, -1, that the session data holds
C27_ZeroEmiReplacesUnknown ==
  [][\A i \in 1..Len(stream.tasks) :
       (/\ stream.tasks[i] = "streaming"
        /\ stream'.tasks[i] = "evaluating"
        /\ stream.data.existing_emi = <<-1>>
        /\ stream'.normalized.existing_emi = <<0>>)
         => stream'.data.existing_emi = <<0>>]_vars

\* C28: POST /otp/verify answers with success only if the submitted code is
\* the code stored last for the email by /otp/send, that code has not
\* expired, and no successful verification has used it
C28_VerifyOnlyStoredCode ==
  [][(/\ request'.endpoint = "verify_otp"
      /\ otp'.now = otp.now
      /\ response'.status = 200)
       => /\ Has(otp.store, lower(request'.email))
          /\ otp.store[lower(request'.email)].code = request'.otp_code
          /\ otp.now <= otp.store[lower(request'.email)].expires]_vars

\* C29: a broadcast delivers the message exactly once to every websocket
\* that stays in the list of active connections from its beginning to its
\* end, whatever other websockets do meanwhile
C29_BroadcastReachesAllThatStay ==
  manager.pc = "done"
    => \A c \in manager.stayed :
         CountOf(manager.delivered, LAMBDA d : d = c) = 1

\* the responses of a call that count as retries
CountedRetries ==
  CountOf(openrouter.responses, LAMBDA r : r \in {"429", "503"})

\* C30: OpenRouterService.generate ends after at most four requests, three
\* counted retries and one retry without the system message, and then
\* returns or raises RuntimeError
C30_GenerateTerminates ==
  /\ Len(openrouter.responses) <= 4
  /\ CountedRetries <= 3
  /\ openrouter.pc = "posting" => Len(openrouter.responses) < 4
  /\ openrouter.pc = "raised" => openrouter.raised = "RuntimeError"
====
